---------------------------- MODULE Spec2Model ----------------------------
(***************************************************************************)
(* Model of the ts3bot entitlement engine: the group synchronizer          *)
(* (ts3bot.sync_groups), the rate-limited verifier (limit_fetch_api),      *)
(* the verification cycle (ts3bot.cycle.Cycle) and the registration        *)
(* transfer (transfer_registration).                                       *)
(*                                                                         *)
(* One module, several specifications that share one state:                *)
(*   SpecSync   two successive sync_groups calls on enumerated inputs      *)
(*   SpecHeal   Cycle.fix_user_guilds on enumerated link tables            *)
(*   SpecFetch  limit_fetch_api against a nondeterministic upstream        *)
(*   SpecCycle  Cycle.run over a small directory and store                 *)
(*   SpecXfer   sequences of transfer_registration and Cycle.revoke        *)
(***************************************************************************)
EXTENDS Integers, Sequences, FiniteSets, TLC

VARIABLES
    pc,         \* position of the driver of the specification being run
    store,      \* entitlement store: accounts, guild links, identity links
    groups,     \* chat directory: cldbid -> set of sgids the user holds
    whitelist,  \* Config.whitelist_groups: names exempt from automation
    syncArgs,   \* arguments of the sync_groups calls of SpecSync
    syncLog,    \* one record per sync_groups call made so far
    fetch,      \* state of the running limit_fetch_api call
    cyc,        \* state of the running Cycle
    xfer        \* transfer_registration / revoke calls made, and the last one

vars == <<pc, store, groups, whitelist, syncArgs, syncLog, fetch, cyc, xfer>>

NoAccount == "none"      \* Python None where an account is expected
NoRow == [nil |-> TRUE]  \* Python None where a table row is expected
Idle == [state |-> "idle"]
NoOp == [op |-> "none"]
NoXfer == [count |-> 0, last |-> NoOp]

----------------------------------------------------------------------------
(* Bounds of the model.                                                    *)

MaxHeld == 3     \* groups a user holds initially (SpecSync)
MaxFail == 1     \* directory commands that fail in one sync_groups call
MaxLinks == 4    \* LinkAccountGuild rows in the store (SpecHeal)
MaxOps == 2      \* transfer_registration / revoke calls in a run (SpecXfer)

----------------------------------------------------------------------------
(* Static configuration and mapping tables.                                *)

\* Config.get("teamspeak", "generic_world_id" / "generic_guild_id"),
\* Config.additional_guild_groups, and the names sync_groups reports.
Config ==
    [ generic_world |-> [sgid |-> 50, name |-> "Generic World"],
      generic_guild |-> [sgid |-> 51, name |-> "Generic Guild"],
      additional_guild_groups |-> <<"Guild Extra">> ]

\* WorldGroup rows: world -> group_id, is_linked.  World 7 has no row.
WorldGroupTable ==
    { [world |-> 5, group_id |-> 105, is_linked |-> TRUE,  proper_name |-> "World 5"],
      [world |-> 6, group_id |-> 106, is_linked |-> FALSE, proper_name |-> "World 6"] }

Worlds == {5, 6, 7}

\* Guild rows: guild id -> group_id (nullable, written 0), name.
GuildTable ==
    { [guild |-> "g1", group_id |-> 201, name |-> "Guild One"],
      [guild |-> "g2", group_id |-> 202, name |-> "Guild Two"],
      [guild |-> "g3", group_id |-> 0, name |-> "Guild Three"] }

\* Guilds an account can select: those that grant a group.
GroupGuilds == { g.guild : g \in { r \in GuildTable : r.group_id # 0 } }

\* The server groups of the chat directory (sgid, name), as
\* servergroupsbyclientid reports them.
ServerGroups ==
    { [sgid |-> 6,   name |-> "Admin"],
      [sgid |-> 8,   name |-> "Guest"],
      [sgid |-> 50,  name |-> "Generic World"],
      [sgid |-> 51,  name |-> "Generic Guild"],
      [sgid |-> 60,  name |-> "Guild Extra"],
      [sgid |-> 105, name |-> "World 5"],
      [sgid |-> 106, name |-> "World 6"],
      [sgid |-> 201, name |-> "Guild One"],
      [sgid |-> 202, name |-> "Guild Two"] }

Sgids == { g.sgid : g \in ServerGroups }
ServerGroup(id) == CHOOSE g \in ServerGroups : g.sgid = id

\* The ids the claims call "managed".
WorldGroupIds == { w.group_id : w \in WorldGroupTable }
GuildGroupIds == { g.group_id : g \in { r \in GuildTable : r.group_id # 0 } }
ManagedIds ==
    WorldGroupIds \cup GuildGroupIds
        \cup {Config.generic_world.sgid, Config.generic_guild.sgid}

----------------------------------------------------------------------------
(* Helpers.                                                                *)

RECURSIVE SortedSeq(_)
SortedSeq(S) ==
    IF S = {} THEN <<>>
    ELSE LET m == CHOOSE x \in S : \A y \in S : x <= y
         IN  <<m>> \o SortedSeq(S \ {m})

Range(s) == { s[i] : i \in 1..Len(s) }

----------------------------------------------------------------------------
(* Entitlement store accessors (ts3bot.database.models).                   *)

\* Account.guild_group(): the account's active guild link to a guild that
\* grants a group, or None.
GuildGroupOf(st, a) ==
    LET act == { l \in st.guildLinks :
                    l.account = a /\ l.is_active /\ l.guild \in GroupGuilds }
    IN  IF act = {} THEN NoRow
        ELSE LET l == CHOOSE x \in act : \A y \in act : x.id >= y.id
             IN  CHOOSE g \in GuildTable : g.guild = l.guild

\* Account.world_group(session): the WorldGroup row of the account's world.
WorldGroupOf(st, a) ==
    LET rows == { w \in WorldGroupTable : w.world = st.accounts[a].world }
    IN  IF rows = {} THEN NoRow ELSE CHOOSE w \in rows : TRUE

----------------------------------------------------------------------------
(* ts3bot.sync_groups                                                      *)
(*                                                                         *)
(* The running call is a record s:                                         *)
(*   ids      server_group_ids                                             *)
(*   added    group_changes["added"],  removed  group_changes["removed"]   *)
(*   cmds     the servergroupaddclient / servergroupdelclient commands     *)
(*            sent, in order, each with its outcome                        *)
(* fail is the set of sgids for which the directory answers this call's    *)
(* command with a TS3Error.                                                *)

Cmd(op, sgid, ok) == [op |-> op, sgid |-> sgid, ok |-> ok]

\* Mutant: a failed add is reported like a successful one.
AddGroup_ReportsAttempt(s, group, fail) ==
    IF group.sgid \in s.ids THEN s
    ELSE IF group.sgid \in fail
         THEN [s EXCEPT !.added = Append(@, group.name),
                        !.cmds = Append(@, Cmd("add", group.sgid, FALSE))]
         ELSE [s EXCEPT !.ids = @ \cup {group.sgid},
                        !.added = Append(@, group.name),
                        !.cmds = Append(@, Cmd("add", group.sgid, TRUE))]

\* _add_group
AddGroup(s, group, fail) ==
    IF group.sgid \in s.ids THEN s
    ELSE IF group.sgid \in fail
         THEN [s EXCEPT !.cmds = Append(@, Cmd("add", group.sgid, FALSE))]
         ELSE [s EXCEPT !.ids = @ \cup {group.sgid},
                        !.added = Append(@, group.name),
                        !.cmds = Append(@, Cmd("add", group.sgid, TRUE))]

\* _remove_group
RemoveGroup(s, group, fail) ==
    IF group.sgid \notin s.ids THEN s
    ELSE IF group.sgid \in fail
         THEN [s EXCEPT !.cmds = Append(@, Cmd("del", group.sgid, FALSE))]
         ELSE [s EXCEPT !.ids = @ \ {group.sgid},
                        !.removed = Append(@, group.name),
                        !.cmds = Append(@, Cmd("del", group.sgid, TRUE))]

\* "Get groups the user is allowed to have"
ValidGuildGroup(st, account, remove_all) ==
    IF account # NoAccount /\ st.accounts[account].is_valid /\ ~remove_all
    THEN GuildGroupOf(st, account) ELSE NoRow

\* Mutant: remove_all does not take the world entitlement away.
ValidWorldGroup_IgnoresRemoveAll(st, account, remove_all) ==
    IF account # NoAccount /\ st.accounts[account].is_valid
    THEN WorldGroupOf(st, account) ELSE NoRow

ValidWorldGroup(st, account, remove_all) ==
    IF account # NoAccount /\ st.accounts[account].is_valid /\ ~remove_all
    THEN WorldGroupOf(st, account) ELSE NoRow

\* Mutant: the home world's group is not recognised as valid.
SkipKnownValid_NoWorld(sg, vgg, vwg) ==
    \/ sg.name = "Guest"
    \/ (vgg # NoRow /\ sg.sgid = vgg.group_id)

\* "Skip known valid groups".  The two generic comparisons put an int next
\* to the generic_world / generic_guild dict and are never true.
SkipKnownValid(sg, vgg, vwg) ==
    \/ sg.name = "Guest"
    \/ FALSE
    \/ FALSE
    \/ (vgg # NoRow /\ sg.sgid = vgg.group_id)
    \/ (vwg # NoRow /\ sg.sgid = vwg.group_id)

\* Mutant: the whitelist test comes after the test for unknown groups.
WhitelistAbort_AfterUnknown(server_groups, vgg, vwg, skip_whitelisted, wl) ==
    /\ skip_whitelisted
    /\ \E i \in 1..Len(server_groups) :
          /\ ~SkipKnownValid(server_groups[i], vgg, vwg)
          /\ (server_groups[i].sgid \in GuildGroupIds
                \/ server_groups[i].sgid \in WorldGroupIds)
          /\ server_groups[i].name \in wl

\* "Skip users with whitelisted group": the loop returns at the first group
\* that is not skipped and whose name is whitelisted; nothing has been sent
\* to the directory at that point.
WhitelistAbort(server_groups, vgg, vwg, skip_whitelisted, wl) ==
    /\ skip_whitelisted
    /\ \E i \in 1..Len(server_groups) :
          /\ ~SkipKnownValid(server_groups[i], vgg, vwg)
          /\ server_groups[i].name \in wl

\* Mutant: only guild groups are known.
KnownGroup_GuildOnly(sgid) == sgid \in GuildGroupIds

\* "Skip unknown groups": world_groups and guild_groups are the group ids of
\* the WorldGroup rows and of the Guild rows with a group.
KnownGroup(sgid) == sgid \in GuildGroupIds \/ sgid \in WorldGroupIds

\* Mutant: groups outside world_groups and guild_groups are not skipped.
InvalidGroups_NoUnknownSkip(server_groups, vgg, vwg) ==
    SelectSeq(server_groups, LAMBDA sg : ~SkipKnownValid(sg, vgg, vwg))

\* invalid_groups
InvalidGroups(server_groups, vgg, vwg) ==
    SelectSeq(server_groups,
              LAMBDA sg : ~SkipKnownValid(sg, vgg, vwg) /\ KnownGroup(sg.sgid))

\* Mutant: the loop over invalid_groups ends at the first failed removal.
RECURSIVE RemoveAll_StopsAtFailure(_, _, _)
RemoveAll_StopsAtFailure(s, gs, fail) ==
    IF gs = <<>> THEN s
    ELSE IF Head(gs).sgid \in s.ids /\ Head(gs).sgid \in fail
         THEN RemoveGroup(s, Head(gs), fail)
         ELSE RemoveAll_StopsAtFailure(RemoveGroup(s, Head(gs), fail), Tail(gs), fail)

RECURSIVE RemoveAll(_, _, _)
RemoveAll(s, gs, fail) ==
    IF gs = <<>> THEN s
    ELSE RemoveAll(RemoveGroup(s, Head(gs), fail), Tail(gs), fail)

\* "User has additional guild groups but shouldn't": for each configured
\* name, the first server group of the user with that name.
AdditionalToRemove(server_groups) ==
    LET hit(n) == SelectSeq(server_groups, LAMBDA sg : sg.name = n)
        names == Config.additional_guild_groups
        F[i \in 0..Len(names)] ==
            IF i = 0 THEN <<>>
            ELSE IF hit(names[i]) = <<>> THEN F[i - 1]
                 ELSE Append(F[i - 1], Head(hit(names[i])))
    IN  F[Len(names)]

RemoveAdditional(s, server_groups, vgg, fail) ==
    IF vgg = NoRow THEN RemoveAll(s, AdditionalToRemove(server_groups), fail)
    ELSE s

\* "User is missing generic guild"
StepAddGenericGuild(s, vgg, fail) ==
    IF vgg # NoRow /\ Config.generic_guild.sgid \notin s.ids
    THEN AddGroup(s, Config.generic_guild, fail) ELSE s

\* Mutant: the test for the guild link is inverted.
StepRemoveGenericGuild_Inverted(s, vgg, fail) ==
    IF Config.generic_guild.sgid \in s.ids /\ vgg # NoRow
    THEN RemoveGroup(s, Config.generic_guild, fail) ELSE s

\* "User has generic guild but shouldn't"
StepRemoveGenericGuild(s, vgg, fail) ==
    IF Config.generic_guild.sgid \in s.ids /\ vgg = NoRow
    THEN RemoveGroup(s, Config.generic_guild, fail) ELSE s

\* "User is missing valid guild"
StepAddGuild(s, vgg, fail) ==
    IF vgg # NoRow /\ vgg.group_id \notin s.ids
    THEN AddGroup(s, [sgid |-> vgg.group_id, name |-> vgg.name], fail) ELSE s

\* Mutant: generic-world is added to guild-linked accounts too.
StepAddGenericWorld_WithGuild(s, vgg, vwg, fail) ==
    IF /\ vwg # NoRow
       /\ vwg.is_linked
       /\ Config.generic_world.sgid \notin s.ids
    THEN AddGroup(s, Config.generic_world, fail) ELSE s

\* "User is missing generic world"
StepAddGenericWorld(s, vgg, vwg, fail) ==
    IF /\ vwg # NoRow
       /\ vwg.is_linked
       /\ Config.generic_world.sgid \notin s.ids
       /\ vgg = NoRow
    THEN AddGroup(s, Config.generic_world, fail) ELSE s

\* Mutant: a guild link does not take generic-world away.
StepRemoveGenericWorld_NoGuildCheck(s, vgg, vwg, fail) ==
    IF /\ Config.generic_world.sgid \in s.ids
       /\ (vwg = NoRow \/ ~vwg.is_linked)
    THEN RemoveGroup(s, Config.generic_world, fail) ELSE s

\* "User has generic world but shouldn't"
StepRemoveGenericWorld(s, vgg, vwg, fail) ==
    IF /\ Config.generic_world.sgid \in s.ids
       /\ (vwg = NoRow \/ ~vwg.is_linked \/ vgg # NoRow)
    THEN RemoveGroup(s, Config.generic_world, fail) ELSE s

\* Mutant: the home world's group is added for linked worlds only.
StepAddHomeWorld_LinkedOnly(s, vgg, vwg, fail) ==
    IF vwg # NoRow /\ vwg.is_linked /\ vwg.group_id \notin s.ids
    THEN AddGroup(s, [sgid |-> vwg.group_id, name |-> vwg.proper_name], fail)
    ELSE s

\* "User is missing home world"
StepAddHomeWorld(s, vgg, vwg, fail) ==
    IF vwg # NoRow /\ vwg.group_id \notin s.ids
    THEN AddGroup(s, [sgid |-> vwg.group_id, name |-> vwg.proper_name], fail)
    ELSE s

\* The whole call.  member is what servergroupsbyclientid returns (in sgid
\* order); the result carries the new membership, the returned
\* group_changes, the commands sent and whether the whitelist return was
\* taken.
SyncGroups(st, member, account, remove_all, skip_whitelisted, wl, fail) ==
    LET server_groups == [i \in 1..Cardinality(member) |->
                             ServerGroup(SortedSeq(member)[i])]
        vgg == ValidGuildGroup(st, account, remove_all)
        vwg == ValidWorldGroup(st, account, remove_all)
        s0  == [ids |-> member, added |-> <<>>, removed |-> <<>>, cmds |-> <<>>]
        s1  == RemoveAll(s0, InvalidGroups(server_groups, vgg, vwg), fail)
        s2  == RemoveAdditional(s1, server_groups, vgg, fail)
        s3  == StepAddGenericGuild(s2, vgg, fail)
        s4  == StepRemoveGenericGuild(s3, vgg, fail)
        s5  == StepAddGuild(s4, vgg, fail)
        s6  == StepAddGenericWorld(s5, vgg, vwg, fail)
        s7  == StepRemoveGenericWorld(s6, vgg, vwg, fail)
        s8  == StepAddHomeWorld(s7, vgg, vwg, fail)
        out == IF WhitelistAbort(server_groups, vgg, vwg, skip_whitelisted, wl)
               THEN s0 ELSE s8
    IN  [ account |-> account, remove_all |-> remove_all,
          skip_whitelisted |-> skip_whitelisted,
          before |-> member, after |-> out.ids,
          added |-> out.added, removed |-> out.removed, cmds |-> out.cmds,
          aborted |-> WhitelistAbort(server_groups, vgg, vwg, skip_whitelisted, wl) ]

----------------------------------------------------------------------------
(* SpecSync: sync_groups called twice in succession with the same          *)
(* arguments on every account state, membership and whitelist.             *)

A1 == "a1"
U1 == "u1"    \* cldbid of the user of SpecSync

\* The sgids a call sends a command for; which sgids these are does not
\* depend on which commands fail (every step tests its own sgid only), and a
\* failure of a command that is never sent changes nothing.
Commanded(st, member, account, remove_all, skip_whitelisted, wl) ==
    { c.sgid : c \in Range(SyncGroups(st, member, account, remove_all,
                                      skip_whitelisted, wl, {}).cmds) }

FailSets(S) == { F \in SUBSET S : Cardinality(F) <= MaxFail }

Memberships == { M \in SUBSET Sgids : Cardinality(M) <= MaxHeld }

\* Two deployments: the usual one (an administrative group is whitelisted)
\* and one whose whitelist names the guest group, a guild group and generic-guild.
Whitelists == { {"Admin"}, {"Guest", "Guild One", "Generic Guild"} }

\* Guild link tables of one account: no link, or one active link, possibly
\* after an earlier, deactivated selection.
SyncGuildLinks ==
    { {},
      { [id |-> 2, account |-> A1, guild |-> "g1", is_active |-> TRUE] },
      { [id |-> 1, account |-> A1, guild |-> "g1", is_active |-> FALSE],
        [id |-> 2, account |-> A1, guild |-> "g2", is_active |-> TRUE] } }

\* The stores of SpecSync: no account at all (the user is unknown), or one
\* account with every validity, world and guild selection.
SyncStores ==
    { [accounts |-> <<>>, guildLinks |-> {}, idLinks |-> {}] } \cup
    { [ accounts |-> [a \in {A1} |->
                        [is_valid |-> v, world |-> w, last_check |-> 0]],
        guildLinks |-> gl,
        idLinks |-> {} ] : v \in BOOLEAN, w \in Worlds, gl \in SyncGuildLinks }

InitSync ==
    /\ pc = "sync"
    /\ store \in SyncStores
    /\ \E M \in Memberships : groups = [u \in {U1} |-> M]
    /\ whitelist \in Whitelists
    /\ \E ra \in BOOLEAN, sw \in BOOLEAN :
          syncArgs = [cldbid |-> U1,
                      account |-> IF store.accounts = <<>> THEN NoAccount ELSE A1,
                      remove_all |-> ra, skip_whitelisted |-> sw]
    /\ syncLog = <<>>
    /\ fetch = Idle
    /\ cyc = Idle
    /\ xfer = NoXfer

\* One sync_groups call with the arguments of syncArgs.
SyncCall ==
    /\ pc = "sync"
    /\ Len(syncLog) < 2
    /\ \E fail \in FailSets(Commanded(store, groups[syncArgs.cldbid],
                                       syncArgs.account, syncArgs.remove_all,
                                       syncArgs.skip_whitelisted, whitelist)) :
          LET r == SyncGroups(store, groups[syncArgs.cldbid], syncArgs.account,
                              syncArgs.remove_all, syncArgs.skip_whitelisted,
                              whitelist, fail)
          IN  /\ groups' = [groups EXCEPT ![syncArgs.cldbid] = r.after]
              /\ syncLog' = Append(syncLog, r)
    /\ UNCHANGED <<pc, store, whitelist, syncArgs, fetch, cyc, xfer>>

NextSync == SyncCall

SpecSync == InitSync /\ [][NextSync]_vars

----------------------------------------------------------------------------
(* Cycle.fix_user_guilds (phase 0)                                         *)

ActiveGuildLinks(links, a) == { l \in links : l.account = a /\ l.is_active }

\* duplicate_guilds: one row per account with more than one active link
\* (GROUP BY account_id HAVING count(guild_id) > 1 over the active rows).
DuplicateAccounts(links) ==
    { a \in { l.account : l \in links } :
        Cardinality(ActiveGuildLinks(links, a)) > 1 }

\* The inner query: the id of the account's most recent active link, or no
\* row at all.
LatestActiveId(links, a) ==
    CHOOSE i \in { l.id : l \in ActiveGuildLinks(links, a) } :
        \A l \in ActiveGuildLinks(links, a) : i >= l.id

\* "Delete duplicates": DELETE FROM links WHERE id != (inner query).  The
\* outer query carries no account filter, so every row of the table other
\* than the one the inner query names is deleted; when the inner query
\* yields no row the comparison is NULL and nothing is deleted.
DeleteDuplicates(links, a) ==
    IF ActiveGuildLinks(links, a) = {} THEN links
    ELSE { l \in links : ~(l.id # LatestActiveId(links, a)) }

\* The loop over duplicate_guilds; the rows were fetched before the first
\* delete and come in the order the database groups them.
RECURSIVE FixUserGuildsLoop(_, _)
FixUserGuildsLoop(links, order) ==
    IF order = <<>> THEN links
    ELSE FixUserGuildsLoop(DeleteDuplicates(links, Head(order)), Tail(order))

Orders(S) ==
    { o \in [1..Cardinality(S) -> S] : \A a \in S : \E i \in DOMAIN o : o[i] = a }

HealAccounts == {"a1", "a2"}

\* Link tables with ids 1..n in creation order.
LinkTables ==
    UNION { { { [id |-> i, account |-> f[i].account, guild |-> f[i].guild,
                 is_active |-> f[i].is_active] : i \in 1..n } :
              f \in [1..n -> [account : HealAccounts, guild : GroupGuilds,
                              is_active : BOOLEAN]] } :
            n \in 0..MaxLinks }

InitHeal ==
    /\ pc = "heal"
    /\ \E lt \in LinkTables :
          store = [ accounts |-> [a \in HealAccounts |->
                                    [is_valid |-> TRUE, world |-> 5, last_check |-> 0]],
                    guildLinks |-> lt,
                    idLinks |-> {} ]
    /\ groups = <<>>
    /\ whitelist = {}
    /\ syncArgs = Idle
    /\ syncLog = <<>>
    /\ fetch = Idle
    /\ cyc = Idle
    /\ xfer = NoXfer

\* Cycle.fix_user_guilds, the whole handler.
FixUserGuilds ==
    /\ pc = "heal"
    /\ \E order \in Orders(DuplicateAccounts(store.guildLinks)) :
          store' = [store EXCEPT
                      !.guildLinks = FixUserGuildsLoop(store.guildLinks, order)]
    /\ cyc' = [state |-> "healed", linksBefore |-> store.guildLinks]
    /\ pc' = "healed"
    /\ UNCHANGED <<groups, whitelist, syncArgs, syncLog, fetch, xfer>>

NextHeal == FixUserGuilds

SpecHeal == InitHeal /\ [][NextHeal]_vars

----------------------------------------------------------------------------
(* fetch_api and limit_fetch_api                                           *)

RetryLimit == 3      \* "if level >= 3"
CoolDown == 60       \* time.sleep(60)

\* The upstream's answers: an HTTP status and whether the body carries the
\* "Invalid" / "invalid" marker.
Statuses == {200, 400, 403, 404, 429, 500}
Responses == [status : Statuses, marker : BOOLEAN]

\* Mutant: the status is classified before the body is looked at.
FetchApi_StatusFirst(resp, has_key) ==
    IF resp.status = 200 THEN "Ok"
    ELSE IF resp.status = 404 THEN "NotFound"
    ELSE IF resp.status = 429 THEN "RateLimited"
    ELSE IF 400 <= resp.status /\ resp.status < 500 /\ has_key /\ resp.marker
    THEN "InvalidKey"
    ELSE "Unavailable"

\* fetch_api: what one request ends in.  has_key is the truth value of
\* api_key.
FetchApi(resp, has_key) ==
    IF 400 <= resp.status /\ resp.status < 500 /\ has_key /\ resp.marker
    THEN "InvalidKey"
    ELSE IF resp.status = 200 THEN "Ok"
    ELSE IF resp.status = 404 THEN "NotFound"
    ELSE IF resp.status = 429 THEN "RateLimited"
    ELSE "Unavailable"

\* Mutant: the bound is tested one level too late.
LevelExceeded_OffByOne(level) == level > RetryLimit

\* "if level >= 3: raise RateLimitException"
LevelExceeded(level) == level >= RetryLimit

\* fetch is [state, has_key, level, events, answers, outcomes, result]:
\*   events    the requests sent and the sleeps taken, in order
\*   answers   the upstream's answer to each request
\*   outcomes  what each request ended in
\*   result    "Ok" when the call returned, else the exception it raised
\*             ("RateLimitExceeded" is the RateLimitException of the bound)
Request == [ev |-> "request"]
Sleep(n) == [ev |-> "sleep", units |-> n]

InitFetch ==
    /\ pc = "fetch"
    /\ store = [accounts |-> <<>>, guildLinks |-> {}, idLinks |-> {}]
    /\ groups = <<>>
    /\ whitelist = {}
    /\ syncArgs = Idle
    /\ syncLog = <<>>
    /\ fetch = Idle
    /\ cyc = Idle
    /\ xfer = NoXfer

\* A caller enters limit_fetch_api(endpoint, api_key), level 0.
FetchCall ==
    /\ pc = "fetch"
    /\ fetch.state = "idle"
    /\ \E k \in BOOLEAN :
          fetch' = [state |-> "running", has_key |-> k, level |-> 0,
                    events |-> <<>>, answers |-> <<>>, outcomes |-> <<>>,
                    result |-> "none"]
    /\ UNCHANGED <<pc, store, groups, whitelist, syncArgs, syncLog, cyc, xfer>>

\* limit_fetch_api at a level past the bound raises.
FetchGiveUp ==
    /\ pc = "fetch"
    /\ fetch.state = "running"
    /\ LevelExceeded(fetch.level)
    /\ fetch' = [fetch EXCEPT !.state = "raised", !.result = "RateLimitExceeded"]
    /\ UNCHANGED <<pc, store, groups, whitelist, syncArgs, syncLog, cyc, xfer>>

\* Mutant: an outage of the upstream is waited out like a rate limit.
FetchAttempt_RetriesOutage ==
    /\ pc = "fetch"
    /\ fetch.state = "running"
    /\ ~LevelExceeded(fetch.level)
    /\ \E resp \in Responses :
          LET o == FetchApi(resp, fetch.has_key)
              sent == [fetch EXCEPT !.events = Append(@, Request),
                                    !.answers = Append(@, resp),
                                    !.outcomes = Append(@, o)]
          IN  fetch' =
                IF o \in {"RateLimited", "Unavailable"}
                THEN [sent EXCEPT !.events = Append(@, Sleep(CoolDown)),
                                  !.level = @ + 1]
                ELSE IF o = "Ok"
                THEN [sent EXCEPT !.state = "returned", !.result = "Ok"]
                ELSE [sent EXCEPT !.state = "raised", !.result = o]
    /\ UNCHANGED <<pc, store, groups, whitelist, syncArgs, syncLog, cyc, xfer>>

\* One level of limit_fetch_api: the request, and on RateLimitException the
\* sleep and the recursive call; a result is returned, and any other
\* exception propagates.
FetchAttempt ==
    /\ pc = "fetch"
    /\ fetch.state = "running"
    /\ ~LevelExceeded(fetch.level)
    /\ \E resp \in Responses :
          LET o == FetchApi(resp, fetch.has_key)
              sent == [fetch EXCEPT !.events = Append(@, Request),
                                    !.answers = Append(@, resp),
                                    !.outcomes = Append(@, o)]
          IN  fetch' =
                IF o = "RateLimited"
                THEN [sent EXCEPT !.events = Append(@, Sleep(CoolDown)),
                                  !.level = @ + 1]
                ELSE IF o = "Ok"
                THEN [sent EXCEPT !.state = "returned", !.result = "Ok"]
                ELSE [sent EXCEPT !.state = "raised", !.result = o]
    /\ UNCHANGED <<pc, store, groups, whitelist, syncArgs, syncLog, cyc, xfer>>

NextFetch == FetchCall \/ FetchGiveUp \/ FetchAttempt

SpecFetch == InitFetch /\ [][NextFetch]_vars

----------------------------------------------------------------------------
(* Store operations used by revocation and transfer                        *)
(* (ts3bot.database.models).                                               *)

ActiveIdLinks(st) == { l \in st.idLinks : l.is_active }

\* Account.get_by_identity(session, guid): the account with an active link
\* to the identity, or None.
GetByIdentity(st, guid) ==
    LET ls == { l \in ActiveIdLinks(st) : l.identity = guid }
    IN  IF ls = {} THEN NoAccount
        ELSE (CHOOSE l \in ls : \A m \in ls : l.id >= m.id).account

\* account.valid_identities.one_or_none(): the identity of the account's
\* active link, or None.
ValidIdentityOf(st, a) ==
    LET ls == { l \in ActiveIdLinks(st) : l.account = a }
    IN  IF ls = {} THEN NoAccount
        ELSE (CHOOSE l \in ls : \A m \in ls : l.id >= m.id).identity

\* Account.invalidate(session): the account is marked invalid and all its
\* identity links and guild links are deactivated.
Invalidate(st, a) ==
    [ accounts |-> [st.accounts EXCEPT ![a].is_valid = FALSE],
      guildLinks |-> { IF l.account = a THEN [l EXCEPT !.is_active = FALSE] ELSE l :
                         l \in st.guildLinks },
      idLinks |-> { IF l.account = a THEN [l EXCEPT !.is_active = FALSE] ELSE l :
                      l \in st.idLinks } ]

NextId(links) ==
    IF links = {} THEN 1
    ELSE 1 + (CHOOSE i \in { l.id : l \in links } : \A l \in links : i >= l.id)

----------------------------------------------------------------------------
(* Cycle.revoke                                                            *)

\* The store after revoke: "if account: account.invalidate(session)".
RevokeStore(st, account) ==
    IF account # NoAccount THEN Invalidate(st, account) ELSE st

\* Mutant: revoke does not pass skip_whitelisted.
RevokeSync_NoWhitelist(st, member, account, wl, fail) ==
    SyncGroups(RevokeStore(st, account), member, account, TRUE, FALSE, wl, fail)

\* The sync_groups call of revoke: remove_all and skip_whitelisted set.
RevokeSync(st, member, account, wl, fail) ==
    SyncGroups(RevokeStore(st, account), member, account, TRUE, TRUE, wl, fail)

----------------------------------------------------------------------------
(* transfer_registration                                                   *)

\* "Remove previous identities, also removes guild groups"
TransferInvalidate(st, account) == Invalidate(st, account)

\* Mutant: the target identity's current registration is left alone.
TransferInvalidateOther_Skipped(st, target) == st

\* "Invalidate target identity's link, if it exists"
TransferInvalidateOther(st, target) ==
    IF GetByIdentity(st, target) # NoAccount
    THEN Invalidate(st, GetByIdentity(st, target)) ELSE st

\* "Transfer roles to new identity": a new, active LinkAccountIdentity row.
TransferAddLink(st, account, target) ==
    [st EXCEPT !.idLinks = @ \cup
        { [id |-> NextId(st.idLinks), account |-> account,
           identity |-> target, is_active |-> TRUE] }]

\* Mutant: the guild selection is not made active again.
TransferRestoreGuild_Skipped(st, link) == st

\* "Add guild group": the guild link read before the invalidation is made
\* active again.
TransferRestoreGuild(st, link) ==
    IF link = NoRow THEN st
    ELSE [st EXCEPT !.guildLinks =
            { IF l.id = link.id THEN [l EXCEPT !.is_active = TRUE] ELSE l :
                l \in @ }]

\* The account's active guild link to a guild with a group, as a link row.
GuildLinkOf(st, a) ==
    LET act == { l \in st.guildLinks :
                    l.account = a /\ l.is_active /\ l.guild \in GroupGuilds }
    IN  IF act = {} THEN NoRow
        ELSE CHOOSE x \in act : \A y \in act : x.id >= y.id

\* The statements of transfer_registration after the target was resolved,
\* in the order of the source; the second sync_groups call of the handler
\* is the first of these that touches the directory's groups when the
\* previous identity is unknown or does not resolve.
TransferSteps(has_previous, prev_resolved) ==
    <<"guild_group", "previous_identity", "invalidate">>
    \o (IF has_previous
        THEN <<"clientgetdbidfromuid">>
             \o (IF prev_resolved THEN <<"sync_groups previous">> ELSE <<>>)
        ELSE <<>>)
    \o <<"invalidate other", "add link", "restore guild", "commit",
         "sync_groups target">>

XferAccounts == {"a1", "a2"}
XferIdentities == {"u1", "u2"}

\* Identity link tables of the initial store: at most one active link per
\* account and per identity, possibly next to a deactivated older link.
XferIdLinks ==
    { {},
      { [id |-> 1, account |-> "a1", identity |-> "u1", is_active |-> TRUE] },
      { [id |-> 1, account |-> "a1", identity |-> "u1", is_active |-> TRUE],
        [id |-> 2, account |-> "a2", identity |-> "u2", is_active |-> TRUE] },
      { [id |-> 1, account |-> "a1", identity |-> "u2", is_active |-> FALSE],
        [id |-> 2, account |-> "a1", identity |-> "u1", is_active |-> TRUE],
        [id |-> 3, account |-> "a2", identity |-> "u2", is_active |-> TRUE] } }

XferGuildLinks ==
    { {}, { [id |-> 1, account |-> "a1", guild |-> "g1", is_active |-> TRUE] } }

InitXfer ==
    /\ pc = "xfer"
    /\ \E il \in XferIdLinks, gl \in XferGuildLinks, v \in BOOLEAN :
          store = [ accounts |-> [a \in XferAccounts |->
                                    [is_valid |-> IF a = "a1" THEN TRUE ELSE v,
                                     world |-> 5, last_check |-> 0]],
                    guildLinks |-> gl,
                    idLinks |-> il ]
    /\ groups = [u \in XferIdentities |->
                    IF u = "u1" THEN {50, 105} ELSE {6, 8, 201}]
    /\ whitelist = {"Admin"}
    /\ syncArgs = Idle
    /\ syncLog = <<>>
    /\ fetch = Idle
    /\ cyc = Idle
    /\ xfer = NoXfer

\* Mutant: the account is invalidated before the target is resolved.
TransferResolveFailed_AfterInvalidate(st, account) ==
    [store |-> TransferInvalidate(st, account), messages |-> <<"error_critical">>]

\* "except ts3.TS3Error": the failure to resolve the target is logged, the
\* sender is sent "error_critical" and the handler returns; the session is
\* as it was.
TransferResolveFailed(st, account) ==
    [store |-> st, messages |-> <<"error_critical">>]

XferDone(x, rec) == [count |-> x.count + 1, last |-> rec]

\* transfer_registration(bot, account, event, target_identity=target), the
\* whole handler.  resolved says whether clientgetdbidfromuid answers for
\* the target, prevResolved whether it answers for the previous identity;
\* the cldbid of a user is written as the user's uid.
TransferRegistration ==
    /\ pc = "xfer"
    /\ xfer.count < MaxOps
    /\ \E account \in XferAccounts, target \in XferIdentities,
          resolved \in BOOLEAN, prevResolved \in BOOLEAN :
          IF ~resolved
          THEN LET out == TransferResolveFailed(store, account)
               IN  /\ store' = out.store
                   /\ xfer' = XferDone(xfer, [op |-> "transfer", account |-> account,
                                         target |-> target, done |-> FALSE,
                                         previous |-> NoAccount, link |-> 0,
                                         messages |-> out.messages])
                   /\ UNCHANGED <<groups, syncLog>>
          ELSE LET guild_group == GuildLinkOf(store, account)
                   previous == ValidIdentityOf(store, account)
                   st1 == TransferInvalidate(store, account)
                   syncPrev == previous # NoAccount /\ prevResolved
                   st2 == TransferInvalidateOther(st1, target)
                   st3 == TransferAddLink(st2, account, target)
                   st4 == TransferRestoreGuild(st3, guild_group)
               IN  \E f1 \in IF syncPrev
                             THEN FailSets(Commanded(st1, groups[previous], account,
                                                     TRUE, FALSE, whitelist))
                             ELSE {{}} :
                     LET r1 == SyncGroups(st1, groups[previous], account,
                                          TRUE, FALSE, whitelist, f1)
                         g1 == IF syncPrev
                               THEN [groups EXCEPT ![previous] = r1.after]
                               ELSE groups
                     IN  \E f2 \in FailSets(Commanded(st4, g1[target], account,
                                                      FALSE, FALSE, whitelist)) :
                           LET r2 == SyncGroups(st4, g1[target], account,
                                                FALSE, FALSE, whitelist, f2)
                           IN  /\ store' = st4
                               /\ groups' = [g1 EXCEPT ![target] = r2.after]
                               /\ syncLog' = IF syncPrev THEN <<r1, r2>> ELSE <<r2>>
                               /\ xfer' = XferDone(xfer, [op |-> "transfer", account |-> account,
                                     target |-> target, done |-> TRUE,
                                     previous |-> previous,
                                     link |-> NextId(st2.idLinks),
                                     guild |-> guild_group,
                                     prevResolved |-> prevResolved,
                                     other |-> GetByIdentity(st1, target),
                                     steps |-> TransferSteps(previous # NoAccount,
                                                             prevResolved)])
    /\ UNCHANGED <<pc, whitelist, syncArgs, fetch, cyc>>

\* Cycle.revoke(account, cldbid) for a directory user, the account being
\* the one the user's identity resolves to (or None).
Revoke ==
    /\ pc = "xfer"
    /\ xfer.count < MaxOps
    /\ \E u \in XferIdentities :
          LET account == GetByIdentity(store, u)
          IN  \E f \in FailSets(Commanded(RevokeStore(store, account), groups[u],
                                          account, TRUE, TRUE, whitelist)) :
                LET r == RevokeSync(store, groups[u], account, whitelist, f)
                IN  /\ store' = RevokeStore(store, account)
                    /\ groups' = [groups EXCEPT ![u] = r.after]
                    /\ syncLog' = <<r>>
                    /\ xfer' = XferDone(xfer, [op |-> "revoke", account |-> account,
                                              target |-> u, done |-> TRUE,
                                              previous |-> NoAccount, link |-> 0])
    /\ UNCHANGED <<pc, whitelist, syncArgs, fetch, cyc>>

NextXfer == TransferRegistration \/ Revoke

SpecXfer == InitXfer /\ [][NextXfer]_vars

----------------------------------------------------------------------------
(* Cycle.run: phases 0, 1 and 2                                            *)

PageSize == 200          \* clientdblist duration=200
KeepaliveEvery == 100    \* counter % 100 == 0

\* Config.getfloat("verify", "cycle_hours"); the clock counts hours.
VerifyConfig == [cycle_hours |-> 24]

\* The users of the chat directory, in clientdblist order.
DirUsers ==
    << [uid |-> "ServerQuery", cldbid |-> "sq"],
       [uid |-> "u1", cldbid |-> "u1"],
       [uid |-> "u2", cldbid |-> "u2"],
       [uid |-> "u3", cldbid |-> "u3"] >>

\* "ServerQuery" in uid
IsServerQuery(user) == user.uid = "ServerQuery"

\* clientdblist(start, duration=200) on the directory dir: the users after
\* the first start, at most duration of them and at most limit, the number
\* of rows the directory hands out per request.
ClientDbList(dir, start, limit) ==
    LET rows == IF limit < PageSize THEN limit ELSE PageSize
    IN  SubSeq(dir, start + 1,
               IF start + rows < Len(dir) THEN start + rows
               ELSE Len(dir))

\* Mutant: the offset advances by the size asked for.
NextStart_FixedStride(start, users) == start + PageSize

\* "start += len(users)"
NextStart(start, users) == start + Len(users)

\* What account.update ends in: the result of the verifier's fetch.  "Ok"
\* leaves the world as it is, "Moved" reports world 6.
VerifierResults ==
    {"Ok", "Moved", "InvalidKey", "NotFound", "RateLimitExceeded", "Unavailable"}

\* Account.update(session): on success the account's fields are written
\* and the account is valid and checked now; on InvalidKeyException the
\* account is marked invalid; any other failure changes nothing.
AccountUpdate(st, a, result, now) ==
    IF result = "Ok"
    THEN [st EXCEPT !.accounts[a].is_valid = TRUE,
                    !.accounts[a].last_check = now]
    ELSE IF result = "Moved"
    THEN [st EXCEPT !.accounts[a].is_valid = TRUE,
                    !.accounts[a].last_check = now,
                    !.accounts[a].world = 6]
    ELSE IF result = "InvalidKey"
    THEN [st EXCEPT !.accounts[a].is_valid = FALSE]
    ELSE st

\* Mutant: an outage of the upstream is handled like an invalid key.
Phase1Handling_OutageRevokes(result) ==
    IF result \in {"Ok", "Moved"} THEN "sync"
    ELSE IF result \in {"InvalidKey", "Unavailable"} THEN "revoke"
    ELSE "raise"

\* The try block of verify_ts3_accounts: after a successful update the
\* groups are synced, InvalidKeyException revokes, RequestException is
\* re-raised, and the other exceptions of the verifier are not caught.
Phase1Handling(result) ==
    IF result \in {"Ok", "Moved"} THEN "sync"
    ELSE IF result = "InvalidKey" THEN "revoke"
    ELSE "raise"

\* Mutant: an invalid key ends the sweep of verify_accounts.
Phase2Handling_InvalidKeyRaises(result) ==
    IF result \in {"Ok", "Moved"} THEN "next" ELSE "raise"

\* The try block of verify_accounts: InvalidKeyException is passed over,
\* RequestException is re-raised, the other exceptions are not caught.
Phase2Handling(result) ==
    IF result \in {"Ok", "Moved", "InvalidKey"} THEN "next" ELSE "raise"

\* Mutant: the freshness skip is taken under verify_all too.
CheckedRecently_IgnoresForce(st, a, now, verify_all) ==
    (now - st.accounts[a].last_check) < VerifyConfig.cycle_hours

\* "User was checked, don't check again"
CheckedRecently(st, a, now, verify_all) ==
    (now - st.accounts[a].last_check) < VerifyConfig.cycle_hours /\ ~verify_all

\* "Run if --ts3 is set or nothing was passed"
RunsPhase1(c) ==
    c.verify_ts3 \/ ~(c.verify_all \/ c.verify_linked_worlds \/ c.verify_world # 0)

IsLinkedWorld(w) == \E r \in WorldGroupTable : r.world = w /\ r.is_linked

\* Mutant: the linked-worlds policy takes precedence over the all policy.
Selected_LinkedFirst(st, c, a) ==
    LET acc == st.accounts[a]
        stale == acc.last_check <= c.now - VerifyConfig.cycle_hours
    IN  IF c.verify_linked_worlds
        THEN /\ acc.last_check <= c.verify_begin
             /\ IF c.verify_world # 0
                THEN acc.world = c.verify_world \/ IsLinkedWorld(acc.world)
                ELSE IsLinkedWorld(acc.world)
             /\ acc.is_valid
        ELSE IF c.verify_all
        THEN acc.last_check <= c.verify_begin /\ acc.is_valid
        ELSE IF c.verify_world # 0
        THEN stale /\ acc.is_valid /\ acc.world = c.verify_world
        ELSE stale /\ acc.is_valid

\* Mutant: the default policy does not ask for a valid account.
Selected_DefaultIgnoresValidity(st, c, a) ==
    LET acc == st.accounts[a]
        stale == acc.last_check <= c.now - VerifyConfig.cycle_hours
    IN  IF c.verify_all
        THEN acc.last_check <= c.verify_begin /\ acc.is_valid
        ELSE IF c.verify_linked_worlds
        THEN /\ acc.last_check <= c.verify_begin
             /\ IF c.verify_world # 0
                THEN acc.world = c.verify_world \/ IsLinkedWorld(acc.world)
                ELSE IsLinkedWorld(acc.world)
             /\ acc.is_valid
        ELSE IF c.verify_world # 0
        THEN stale /\ acc.is_valid /\ acc.world = c.verify_world
        ELSE stale

\* Mutant: the all policy compares last_check with the time of the query.
Selected_AllUsesNow(st, c, a) ==
    LET acc == st.accounts[a]
        stale == acc.last_check <= c.now - VerifyConfig.cycle_hours
    IN  IF c.verify_all
        THEN acc.last_check <= c.now /\ acc.is_valid
        ELSE IF c.verify_linked_worlds
        THEN /\ acc.last_check <= c.verify_begin
             /\ IF c.verify_world # 0
                THEN acc.world = c.verify_world \/ IsLinkedWorld(acc.world)
                ELSE IsLinkedWorld(acc.world)
             /\ acc.is_valid
        ELSE IF c.verify_world # 0
        THEN stale /\ acc.is_valid /\ acc.world = c.verify_world
        ELSE stale /\ acc.is_valid

\* The query of verify_accounts, one of four by the flags.
Selected(st, c, a) ==
    LET acc == st.accounts[a]
        stale == acc.last_check <= c.now - VerifyConfig.cycle_hours
    IN  IF c.verify_all
        THEN acc.last_check <= c.verify_begin /\ acc.is_valid
        ELSE IF c.verify_linked_worlds
        THEN /\ acc.last_check <= c.verify_begin
             /\ IF c.verify_world # 0
                THEN acc.world = c.verify_world \/ IsLinkedWorld(acc.world)
                ELSE IsLinkedWorld(acc.world)
             /\ acc.is_valid
        ELSE IF c.verify_world # 0
        THEN stale /\ acc.is_valid /\ acc.world = c.verify_world
        ELSE stale /\ acc.is_valid

CycleAccounts == <<"a1", "a2", "a3">>

SelectAccounts(st, c) == SelectSeq(CycleAccounts, LAMBDA a : Selected(st, c, a))

Event(kind, who, what) == [ev |-> kind, who |-> who, what |-> what]

\* The stores of SpecCycle: a1 is registered to u1 and a2 to u2, a3 is not
\* registered to a directory user, u3 has no account.
CycleStores ==
    { [ accounts |-> [a \in Range(CycleAccounts) |->
                        [is_valid |-> IF a = "a1" THEN v ELSE TRUE,
                         world |-> IF a = "a3" THEN 6 ELSE 5,
                         last_check |-> lc[a]]],
        guildLinks |-> { [id |-> 1, account |-> "a2", guild |-> "g1",
                          is_active |-> TRUE] },
        idLinks |-> { [id |-> 1, account |-> "a1", identity |-> "u1",
                       is_active |-> TRUE],
                      [id |-> 2, account |-> "a2", identity |-> "u2",
                       is_active |-> TRUE] } ] :
      v \in BOOLEAN, lc \in [Range(CycleAccounts) -> {-48, -1}] }

\* Cycle.__init__: the flags, and verify_begin taken once.
InitCycle ==
    /\ pc = "cycle"
    /\ store \in CycleStores
    /\ \E g3 \in {{106, 202}, {6, 106}} :
          groups = [u \in {"sq", "u1", "u2", "u3"} |->
                      IF u = "u1" THEN {8, 50, 105}
                      ELSE IF u = "u2" THEN {51, 201}
                      ELSE IF u = "u3" THEN g3 ELSE {6}]
    /\ whitelist = {"Admin"}
    /\ syncArgs = Idle
    /\ syncLog = <<>>
    /\ fetch = Idle
    /\ \E va \in BOOLEAN, vl \in BOOLEAN, vt \in BOOLEAN, vw \in {0, 6},
          lim \in {2, PageSize} :
          cyc = [ state |-> "new", dir |-> DirUsers, limit |-> lim,
                  sinceAlive |-> 0,
                  verify_all |-> va, verify_linked_worlds |-> vl,
                  verify_ts3 |-> vt, verify_world |-> vw,
                  verify_begin |-> 0, now |-> 0,
                  users |-> <<>>, counter |-> 0, start |-> 0,
                  accounts |-> <<>>, idx |-> 0,
                  log |-> <<>>, error |-> "none",
                  before |-> [store |-> store, groups |-> groups] ]
    /\ xfer = NoXfer

\* Cycle.run up to the first user: fix_user_guilds, then the first
\* clientdblist of verify_ts3_accounts or, without phase 1, the query of
\* verify_accounts.
CycleStart ==
    /\ pc = "cycle"
    /\ cyc.state = "new"
    /\ \E order \in Orders(DuplicateAccounts(store.guildLinks)) :
          store' = [store EXCEPT
                      !.guildLinks = FixUserGuildsLoop(store.guildLinks, order)]
    /\ cyc' = IF RunsPhase1(cyc)
              THEN [cyc EXCEPT !.state = "phase1",
                               !.users = ClientDbList(cyc.dir, 0, cyc.limit),
                               !.log = <<Event("fix_user_guilds", "", ""),
                                         Event("clientdblist", "", "")>>]
              ELSE [cyc EXCEPT !.state = "select",
                               !.log = <<Event("fix_user_guilds", "", "")>>]
    /\ UNCHANGED <<pc, groups, whitelist, syncArgs, syncLog, fetch, xfer>>

\* One iteration of the for loop of verify_ts3_accounts.
\* The add and remove commands of the sweep succeed here; sync_groups
\* swallows their failures, which SpecSync and SpecXfer cover.
Phase1User ==
    /\ pc = "cycle"
    /\ cyc.state = "phase1"
    /\ cyc.counter < Len(cyc.users)
    /\ LET user == cyc.users[cyc.counter + 1]
           account == GetByIdentity(store, user.uid)
           now == cyc.now + 1
           alive == IF cyc.counter % KeepaliveEvery = 0
                    THEN <<Event("keepalive", "", "")>> ELSE <<>>
           \* sinceAlive counts the users iterated since the latest
           \* keepalive, the user it was sent at included.
           since == IF alive # <<>> /\ ~IsServerQuery(user) THEN 1
                    ELSE cyc.sinceAlive + 1
           c1 == [cyc EXCEPT !.counter = @ + 1, !.now = now,
                             !.sinceAlive = since]
       IN  IF IsServerQuery(user)
           THEN /\ cyc' = c1
                /\ UNCHANGED <<store, groups, syncLog>>
           ELSE IF account = NoAccount
           THEN LET r == RevokeSync(store, groups[user.cldbid], NoAccount,
                                    whitelist, {})
                IN  /\ cyc' = [c1 EXCEPT !.log = @ \o alive
                                  \o <<Event("revoke", user.cldbid, "none")>>]
                    /\ groups' = [groups EXCEPT ![user.cldbid] = r.after]
                    /\ syncLog' = Append(syncLog, r)
                    /\ UNCHANGED store
           ELSE IF CheckedRecently(store, account, now, cyc.verify_all)
           THEN /\ cyc' = [c1 EXCEPT !.log = @ \o alive]
                /\ UNCHANGED <<store, groups, syncLog>>
           ELSE \E result \in VerifierResults :
                  LET st1 == AccountUpdate(store, account, result, now)
                      upd == Event("update", account, result)
                  IN  IF Phase1Handling(result) = "sync"
                      THEN LET r == SyncGroups(st1, groups[user.cldbid], account,
                                               FALSE, FALSE, whitelist, {})
                           IN  /\ store' = st1
                               /\ groups' = [groups EXCEPT ![user.cldbid] = r.after]
                               /\ syncLog' = Append(syncLog, r)
                               /\ cyc' = [c1 EXCEPT !.log = @ \o alive \o <<upd>>]
                      ELSE IF Phase1Handling(result) = "revoke"
                      THEN LET r == RevokeSync(st1, groups[user.cldbid], account,
                                               whitelist, {})
                           IN  /\ store' = RevokeStore(st1, account)
                               /\ groups' = [groups EXCEPT ![user.cldbid] = r.after]
                               /\ syncLog' = Append(syncLog, r)
                               /\ cyc' = [c1 EXCEPT !.log = @ \o alive \o <<upd,
                                             Event("revoke", user.cldbid, account)>>]
                      ELSE /\ store' = st1
                           /\ cyc' = [cyc EXCEPT
                                        !.state = "aborted", !.error = result,
                                        !.now = now, !.sinceAlive = since,
                                        !.log = @ \o alive \o <<upd>>,
                                        !.before = [store |-> store,
                                                    groups |-> groups]]
                           /\ UNCHANGED <<groups, syncLog>>
    /\ UNCHANGED <<pc, whitelist, syncArgs, fetch, xfer>>

\* "Skip to next user block": the next clientdblist; a query error ends the
\* sweep like an empty page does (logged unless its id is 1281), and
\* verify_accounts builds its query.
Phase1NextPage ==
    /\ pc = "cycle"
    /\ cyc.state = "phase1"
    /\ cyc.counter = Len(cyc.users)
    /\ LET start == NextStart(cyc.start, cyc.users)
           page == ClientDbList(cyc.dir, start, cyc.limit)
       IN  \E answer \in IF page = <<>> THEN {"empty", "1281", "error"}
                         ELSE {"page", "error"} :
              cyc' = IF answer = "page"
                     THEN [cyc EXCEPT !.start = start, !.users = page,
                                      !.counter = 0,
                                      !.log = Append(@, Event("clientdblist", "", answer))]
                     ELSE [cyc EXCEPT !.start = start, !.users = <<>>,
                                      !.counter = 0, !.state = "select",
                                      !.log = @ \o <<Event("clientdblist", "", answer)>>
                                          \o (IF answer = "error"
                                              THEN <<Event("logging.exception", "",
                                                           "Error retrieving user list")>>
                                              ELSE <<>>)]
    /\ UNCHANGED <<pc, store, groups, whitelist, syncArgs, syncLog, fetch, xfer>>

\* verify_accounts up to its loop: the query by the flags.
Phase2Select ==
    /\ pc = "cycle"
    /\ cyc.state = "select"
    /\ cyc' = [cyc EXCEPT !.state = "phase2",
                          !.accounts = SelectAccounts(store, cyc),
                          !.idx = 0,
                          !.log = Append(@, Event("verify_accounts", "", ""))]
    /\ UNCHANGED <<pc, store, groups, whitelist, syncArgs, syncLog, fetch, xfer>>

\* Mutant: an invalid key in verify_accounts revokes the groups of the
\* account's user.
Phase2Account_Revokes ==
    /\ pc = "cycle"
    /\ cyc.state = "phase2"
    /\ cyc.idx < Len(cyc.accounts)
    /\ LET account == cyc.accounts[cyc.idx + 1]
           now == cyc.now + 1
           u == ValidIdentityOf(store, account)
       IN  \E result \in VerifierResults :
              /\ store' = AccountUpdate(store, account, result, now)
              /\ groups' = IF result = "InvalidKey" /\ u # NoAccount
                           THEN [groups EXCEPT ![u] =
                                    RevokeSync(store, groups[u], account,
                                               whitelist, {}).after]
                           ELSE groups
              /\ cyc' = IF Phase2Handling(result) = "next"
                        THEN [cyc EXCEPT !.idx = @ + 1, !.now = now,
                                 !.log = Append(@, Event("update", account, result))]
                        ELSE [cyc EXCEPT !.state = "aborted", !.error = result,
                                 !.now = now,
                                 !.log = Append(@, Event("update", account, result)),
                                 !.before = [store |-> store, groups |-> groups]]
    /\ UNCHANGED <<pc, whitelist, syncArgs, syncLog, fetch, xfer>>

\* One iteration of the for loop of verify_accounts.
Phase2Account ==
    /\ pc = "cycle"
    /\ cyc.state = "phase2"
    /\ cyc.idx < Len(cyc.accounts)
    /\ LET account == cyc.accounts[cyc.idx + 1]
           now == cyc.now + 1
       IN  \E result \in VerifierResults :
              /\ store' = AccountUpdate(store, account, result, now)
              /\ cyc' = IF Phase2Handling(result) = "next"
                        THEN [cyc EXCEPT !.idx = @ + 1, !.now = now,
                                 !.log = Append(@, Event("update", account, result))]
                        ELSE [cyc EXCEPT !.state = "aborted", !.error = result,
                                 !.now = now,
                                 !.log = Append(@, Event("update", account, result)),
                                 !.before = [store |-> store, groups |-> groups]]
    /\ UNCHANGED <<pc, groups, whitelist, syncArgs, syncLog, fetch, xfer>>

\* Mutant: Guild.cleanup also runs after a run that was aborted.
CycleCleanup_AfterAbort ==
    /\ pc = "cycle"
    /\ \/ cyc.state = "phase2" /\ cyc.idx = Len(cyc.accounts)
       \/ cyc.state = "aborted" /\ cyc.log[Len(cyc.log)].ev # "cleanup"
    /\ cyc' = [cyc EXCEPT !.log = Append(@, Event("cleanup", "", ""))]
    /\ UNCHANGED <<pc, store, groups, whitelist, syncArgs, syncLog, fetch, xfer>>

\* The end of Cycle.run: models.Guild.cleanup(session).
CycleCleanup ==
    /\ pc = "cycle"
    /\ cyc.state = "phase2"
    /\ cyc.idx = Len(cyc.accounts)
    /\ cyc' = [cyc EXCEPT !.state = "done",
                          !.log = Append(@, Event("cleanup", "", ""))]
    /\ UNCHANGED <<pc, store, groups, whitelist, syncArgs, syncLog, fetch, xfer>>

NextCycle ==
    \/ CycleStart
    \/ Phase1User
    \/ Phase1NextPage
    \/ Phase2Select
    \/ Phase2Account
    \/ CycleCleanup

SpecCycle == InitCycle /\ [][NextCycle]_vars

----------------------------------------------------------------------------
(* Cycle.run over a directory of several full pages                        *)

\* A directory of n users: ServerQuery accounts at the positions sq,
\* counted from 0, and users without registration at the others.
LongDirectory(n, sq) ==
    [i \in 1..n |->
        IF i - 1 \in sq THEN [uid |-> "ServerQuery", cldbid |-> ToString(i)]
        ELSE [uid |-> ToString(i), cldbid |-> ToString(i)]]

DirectorySizes == {150, 301, 400}
QueryPositions == {0, 100, 200, 300}
PageLimits == {150, PageSize}

\* Cycle.__init__ for a sweep of phase 1 over a long directory.
InitSweep ==
    /\ pc = "cycle"
    /\ store \in { st \in CycleStores : \A a \in DOMAIN st.accounts :
                      st.accounts[a].is_valid /\ st.accounts[a].last_check = -48 }
    /\ \E n \in DirectorySizes, sq \in SUBSET QueryPositions, lim \in PageLimits :
          /\ groups = [c \in {ToString(i) : i \in 1..n} |-> {}]
          /\ cyc = [ state |-> "new", dir |-> LongDirectory(n, sq),
                     limit |-> lim, sinceAlive |-> 0,
                     verify_all |-> FALSE, verify_linked_worlds |-> FALSE,
                     verify_ts3 |-> TRUE, verify_world |-> 0,
                     verify_begin |-> 0, now |-> 0,
                     users |-> <<>>, counter |-> 0, start |-> 0,
                     accounts |-> <<>>, idx |-> 0,
                     log |-> <<>>, error |-> "none",
                     before |-> [store |-> store, groups |-> groups] ]
    /\ whitelist = {"Admin"}
    /\ syncArgs = Idle
    /\ syncLog = <<>>
    /\ fetch = Idle
    /\ xfer = NoXfer

SpecSweep == InitSweep /\ [][NextCycle]_vars

----------------------------------------------------------------------------
(* Properties of sync_groups, checked under SpecSync.                      *)

NoFailure(r) == \A i \in 1..Len(r.cmds) : r.cmds[i].ok
AccountValid(r) == r.account # NoAccount /\ store.accounts[r.account].is_valid
HasGuildLink(r) ==
    \E l \in store.guildLinks : l.account = r.account /\ l.is_active
LinkedGuildGroups(r) ==
    { g.group_id : g \in { x \in GuildTable :
        \E l \in store.guildLinks :
            l.account = r.account /\ l.is_active /\ l.guild = x.guild } }
HomeWorldRows(r) ==
    { w \in WorldGroupTable : w.world = store.accounts[r.account].world }
GenericWorldId == Config.generic_world.sgid
GenericGuildId == Config.generic_guild.sgid

\* The desired set as the claim C1 states it.
SpecDesired(r) ==
    IF AccountValid(r) /\ HasGuildLink(r)
    THEN LinkedGuildGroups(r) \cup {GenericGuildId}
    ELSE IF AccountValid(r) /\ \E w \in HomeWorldRows(r) : w.is_linked
         THEN { w.group_id : w \in HomeWorldRows(r) } \cup {GenericWorldId}
         ELSE {}

\* The desired set the code realises: the home world's group is granted to
\* every valid account whose world has a WorldGroup row, with or without a
\* guild link and linked or not; only generic-world is gated on is_linked
\* and on the absence of a guild link.
CodeDesired(r) ==
    IF ~AccountValid(r) \/ r.remove_all THEN {}
    ELSE (IF HasGuildLink(r)
          THEN LinkedGuildGroups(r) \cup {GenericGuildId} ELSE {})
         \cup { w.group_id : w \in HomeWorldRows(r) }
         \cup (IF ~HasGuildLink(r) /\ \E w \in HomeWorldRows(r) : w.is_linked
               THEN {GenericWorldId} ELSE {})

CleanCall(r) == ~r.aborted /\ NoFailure(r)

Returned(r) == [added |-> r.added, removed |-> r.removed]
NothingToChange == [added |-> <<>>, removed |-> <<>>]
HoldsWhitelisted(r) ==
    \E id \in r.before : ServerGroup(id).name \in whitelist
\* A whitelisted group the classification loop does not skip: not the guest
\* group and not a group the account is entitled to in this call.
HoldsEffectiveWhitelisted(r) ==
    \E id \in r.before :
        /\ ServerGroup(id).name \in whitelist
        /\ ServerGroup(id).name # "Guest"
        /\ id \notin (CodeDesired(r) \ {GenericWorldId, GenericGuildId})

\* C4 (as stated): with skip_whitelisted set and a whitelisted group held,
\* no add or remove command is sent and the returned value differs from
\* that of a call that found nothing to change.
C4_Original ==
    \A i \in 1..Len(syncLog) :
        (syncLog[i].skip_whitelisted /\ HoldsWhitelisted(syncLog[i]))
            => /\ syncLog[i].cmds = <<>>
               /\ Returned(syncLog[i]) # NothingToChange

\* C4 (amended): with skip_whitelisted set and a whitelisted group held
\* that is neither the guest group nor the guild or world group the account
\* is entitled to in this call, no add or remove command is sent, the
\* membership is unchanged, and the call returns empty added and removed
\* lists, the same value as a call that found nothing to change.
C4_WhitelistProtection ==
    \A i \in 1..Len(syncLog) :
        (syncLog[i].skip_whitelisted /\ HoldsEffectiveWhitelisted(syncLog[i]))
            => /\ syncLog[i].cmds = <<>>
               /\ syncLog[i].after = syncLog[i].before
               /\ Returned(syncLog[i]) = NothingToChange

\* C4 witness: an aborted revocation of a user who holds the whitelisted
\* administrative group next to managed groups a revocation would remove.
C4_Witness ==
    /\ Len(syncLog) >= 1
    /\ syncLog[1].skip_whitelisted /\ syncLog[1].remove_all
    /\ whitelist = {"Admin"}
    /\ {6, 105, 201} \subseteq syncLog[1].before
    /\ syncLog[1].cmds = <<>>
    /\ syncLog[1].after = syncLog[1].before

\* The input of the spec's example: a valid account on linked world 5
\* without guild link, the user holding exactly generic-guild and Guest,
\* in a call that is not ended by a whitelisted group and whose commands
\* all succeed.
C8_Example(r) ==
    /\ AccountValid(r) /\ ~HasGuildLink(r) /\ ~r.remove_all
    /\ store.accounts[r.account].world = 5
    /\ r.before = {GenericGuildId, 8}
    /\ CleanCall(r)

\* C8 (as stated): on the example, removed = [generic-guild] and
\* added = [world-5 group, generic-world] in that order, Guest still held.
C8_Original ==
    (Len(syncLog) >= 1 /\ C8_Example(syncLog[1]))
        => /\ syncLog[1].removed = <<"Generic Guild">>
           /\ syncLog[1].added = <<"World 5", "Generic World">>
           /\ 8 \in syncLog[1].after

\* C8 (amended): on the example, removed = [generic-guild] and
\* added = [generic-world, world-5 group] in that order (generic-world is
\* added first), and Guest is still held.
C8_SpecExample ==
    (Len(syncLog) >= 1 /\ C8_Example(syncLog[1]))
        => /\ syncLog[1].removed = <<"Generic Guild">>
           /\ syncLog[1].added = <<"Generic World", "World 5">>
           /\ 8 \in syncLog[1].after

\* C8 witness: the example has been run.
C8_Witness ==
    /\ Len(syncLog) >= 1
    /\ C8_Example(syncLog[1])
    /\ syncLog[1].after = {8, GenericWorldId, 105}

AddCmds(r) == SelectSeq(r.cmds, LAMBDA c : c.op = "add")
DelCmds(r) == SelectSeq(r.cmds, LAMBDA c : c.op = "del")
EmptyDesired(r) == r.account = NoAccount \/ ~AccountValid(r) \/ r.remove_all

\* C11: when the account is None or invalid, or remove_all is set, a call
\* without whitelist abort whose commands all succeed leaves the user with
\* no world group, no guild group, no generic-guild and no generic-world,
\* and sends no servergroupaddclient command.
C11_EmptyDesired ==
    \A i \in 1..Len(syncLog) :
        (EmptyDesired(syncLog[i]) /\ CleanCall(syncLog[i]))
            => /\ syncLog[i].after \cap ManagedIds = {}
               /\ AddCmds(syncLog[i]) = <<>>

\* C11 witness: remove_all for a valid, guild-linked account whose user
\* holds a world group, a guild group and generic-guild.
C11_Witness ==
    /\ Len(syncLog) >= 1
    /\ syncLog[1].remove_all /\ AccountValid(syncLog[1]) /\ HasGuildLink(syncLog[1])
    /\ CleanCall(syncLog[1])
    /\ syncLog[1].before = {GenericGuildId, 105, 201}
    /\ syncLog[1].after = {}

GuestId == (CHOOSE g \in ServerGroups : g.name = "Guest").sgid
Unmanaged(S) == S \ ManagedIds
AdditionalIds ==
    { g.sgid : g \in { x \in ServerGroups :
        x.name \in Range(Config.additional_guild_groups) } }
CmdIds(r) == { c.sgid : c \in Range(r.cmds) }
NoValidGuildGroup(r) == EmptyDesired(r) \/ ~HasGuildLink(r)

UnlinkedWorldCall(r) ==
    /\ AccountValid(r) /\ ~HasGuildLink(r) /\ ~r.remove_all
    /\ HomeWorldRows(r) # {}
    /\ \A w \in HomeWorldRows(r) : ~w.is_linked
    /\ CleanCall(r)
HomeWorldIds(r) == { w.group_id : w \in HomeWorldRows(r) }

C17_Original ==
    \A k \in 1..Len(syncLog) :
        \A i, j \in 1..Len(syncLog[k].cmds) :
            (syncLog[k].cmds[i].op = "add" /\ syncLog[k].cmds[j].op = "del")
                => j < i

\* C17 (amended): in every call the removals of world groups, guild
\* groups, additional guild groups and generic-guild are sent before the
\* first add command; the removal of generic-world is the one removal that
\* can follow add commands: it is sent after the adds of generic-guild and
\* of the guild group and before the add of the home world's group.
C17_RemovalOrder ==
    \A k \in 1..Len(syncLog) :
        \A i, j \in 1..Len(syncLog[k].cmds) :
            (syncLog[k].cmds[i].op = "add" /\ syncLog[k].cmds[j].op = "del" /\ i < j)
                => /\ syncLog[k].cmds[j].sgid = GenericWorldId
                   /\ syncLog[k].cmds[i].sgid \in GuildGroupIds \cup {GenericGuildId}

\* C17 witness: a valid guild-linked account on world 5 whose user holds
\* only generic-world: generic-guild and the guild group are added, then
\* generic-world is removed, then the group of world 5 is added.
C17_Witness ==
    /\ Len(syncLog) >= 1
    /\ syncLog[1].before = {GenericWorldId}
    /\ syncLog[1].cmds = << Cmd("add", GenericGuildId, TRUE), Cmd("add", 201, TRUE),
                            Cmd("del", GenericWorldId, TRUE), Cmd("add", 105, TRUE) >>

\* The commands a call sent, without their outcomes.
Attempted(r) == [i \in 1..Len(r.cmds) |-> [op |-> r.cmds[i].op, sgid |-> r.cmds[i].sgid]]
\* The same call with a directory that answers every command.
WithoutFailure(r) ==
    SyncGroups(store, r.before, r.account, r.remove_all, r.skip_whitelisted,
               whitelist, {})
Failed(r) == { r.cmds[i].sgid : i \in { j \in 1..Len(r.cmds) : ~r.cmds[j].ok } }

\* C18: a call in which add or remove commands fail with TS3Error returns
\* its group_changes all the same, and sends, in the same order, every
\* command the same call sends when no command fails; the groups whose
\* commands succeeded end as in that call.
C18_BestEffort ==
    \A k \in 1..Len(syncLog) :
        LET r == syncLog[k]
            w == WithoutFailure(r)
        IN  /\ Attempted(r) = Attempted(w)
            /\ r.after \ Failed(r) = w.after \ Failed(r)
            /\ \A g \in Failed(r) : g \in r.after <=> g \in r.before

\* C18 witness: three groups to remove, the removal of the first fails and
\* the other two are removed.
C18_Witness ==
    /\ Len(syncLog) >= 1
    /\ syncLog[1].cmds = << Cmd("del", 105, FALSE), Cmd("del", 106, TRUE),
                            Cmd("del", 201, TRUE) >>
    /\ syncLog[1].after = {105}
    /\ syncLog[1].removed = <<"World 6", "Guild One">>

\* The names of the groups whose command of kind op succeeded, in the
\* order of the commands.
Succeeded(r, op) ==
    LET ok == SelectSeq(r.cmds, LAMBDA c : c.op = op /\ c.ok)
    IN  [i \in 1..Len(ok) |-> ServerGroup(ok[i].sgid).name]
NoRepeat(s) == \A i, j \in 1..Len(s) : s[i] = s[j] => i = j

\* C19: the returned added list names exactly the groups whose
\* servergroupaddclient succeeded and the removed list exactly the groups
\* whose servergroupdelclient succeeded, each once; a group whose command
\* failed or was never sent is in neither list.
C19_Reporting ==
    \A k \in 1..Len(syncLog) :
        LET r == syncLog[k]
        IN  /\ r.added = Succeeded(r, "add")
            /\ r.removed = Succeeded(r, "del")
            /\ NoRepeat(r.added \o r.removed)
            /\ \A g \in Failed(r) :
                  ServerGroup(g).name \notin Range(r.added) \cup Range(r.removed)

\* C19 witness: the add of generic-world fails while the removal of
\* generic-guild and the add of the home world's group succeed.
C19_Witness ==
    /\ Len(syncLog) >= 1
    /\ syncLog[1].cmds = << Cmd("del", GenericGuildId, TRUE),
                            Cmd("add", GenericWorldId, FALSE),
                            Cmd("add", 105, TRUE) >>
    /\ syncLog[1].added = <<"World 5">>
    /\ syncLog[1].removed = <<"Generic Guild">>

----------------------------------------------------------------------------
(* Properties of fix_user_guilds, checked under SpecHeal.                  *)

RowKey(l) == [id |-> l.id, account |-> l.account, guild |-> l.guild]

\* C5: after fix_user_guilds every account that had more than one active
\* guild link has exactly one active guild link, the one with the highest
\* id, also when several accounts had duplicates.
C5_SelfHeal ==
    pc = "healed" =>
        \A a \in DuplicateAccounts(cyc.linksBefore) :
            { l.id : l \in ActiveGuildLinks(store.guildLinks, a) }
                = { LatestActiveId(cyc.linksBefore, a) }

\* C10: fix_user_guilds deletes no LinkAccountGuild row: the rows after
\* phase 0 are the rows before it, only is_active may differ.
C10_AppendOnly ==
    pc = "healed" =>
        { RowKey(l) : l \in store.guildLinks }
            = { RowKey(l) : l \in cyc.linksBefore }

----------------------------------------------------------------------------
(* Properties of limit_fetch_api, checked under SpecFetch.                 *)

Requests(f) == SelectSeq(f.events, LAMBDA e : e.ev = "request")
FetchOver(f) == f.state \in {"returned", "raised"}

\* C6: three consecutive RateLimited answers make the call fail with the
\* RateLimitException of the bound after exactly three requests, and no
\* fourth request is ever made; one RateLimited answer followed by a
\* success makes the call return that success after exactly two requests
\* with one sleep of 60 in between.
C6_RateLimitBound ==
    fetch.state # "idle" =>
        /\ Len(Requests(fetch)) <= 3
        /\ (fetch.outcomes = <<"RateLimited", "RateLimited", "RateLimited">>
              => /\ fetch.state = "raised" => fetch.result = "RateLimitExceeded"
                 /\ fetch.state # "returned"
                 /\ Len(Requests(fetch)) = 3)
        /\ (fetch.state = "raised" /\ fetch.result = "RateLimitExceeded"
              => fetch.outcomes = <<"RateLimited", "RateLimited", "RateLimited">>)
        /\ (FetchOver(fetch) /\ Len(fetch.outcomes) = 2
                /\ fetch.outcomes[1] = "RateLimited" /\ fetch.outcomes[2] = "Ok"
              => /\ fetch.state = "returned" /\ fetch.result = "Ok"
                 /\ fetch.events = <<Request, Sleep(60), Request>>)
        /\ (fetch.outcomes = <<"RateLimited", "Ok">> => FetchOver(fetch))

\* C6 witness: a call that gave up after three rate-limited requests.
C6_Witness ==
    /\ fetch.state = "raised"
    /\ fetch.result = "RateLimitExceeded"
    /\ Len(Requests(fetch)) = 3

Terminal == {"InvalidKey", "NotFound", "Unavailable"}
Sleeps(f) == SelectSeq(f.events, LAMBDA e : e.ev = "sleep")

\* C20: a request of limit_fetch_api that ends in InvalidKeyException,
\* NotFoundException or RequestException is the call's last: the call has
\* raised that same exception, no sleep and no request follow it, and the
\* only sleeps of the call are those after the rate-limited requests
\* before it.
C20_OnlyRateLimitRetried ==
    fetch.state # "idle" =>
        \A i \in 1..Len(fetch.outcomes) :
            fetch.outcomes[i] \in Terminal
                => /\ i = Len(fetch.outcomes)
                   /\ fetch.state = "raised"
                   /\ fetch.result = fetch.outcomes[i]
                   /\ fetch.events[Len(fetch.events)] = Request
                   /\ Len(Requests(fetch)) = i
                   /\ Len(Sleeps(fetch)) = i - 1
                   /\ \A j \in 1..(i - 1) : fetch.outcomes[j] = "RateLimited"

\* C20 witness: two rate-limited requests, then a request that ends in
\* NotFoundException, which the call raises.
C20_Witness ==
    /\ fetch.state = "raised" /\ fetch.result = "NotFound"
    /\ fetch.outcomes = <<"RateLimited", "RateLimited", "NotFound">>
    /\ fetch.events = <<Request, Sleep(CoolDown), Request, Sleep(CoolDown), Request>>

----------------------------------------------------------------------------
(* Properties of transfer_registration and revoke, checked under SpecXfer. *)

LastOp == xfer.last

\* C9: between operations every account has at most one active identity
\* link and every identity has at most one active identity link; after a
\* completed transfer the new link is the only active link of the
\* transferred account and of the target identity, the links they had
\* before being inactive.
C9_IdentityLinks ==
    /\ \A a \in XferAccounts :
          Cardinality({ l \in ActiveIdLinks(store) : l.account = a }) <= 1
    /\ \A u \in XferIdentities :
          Cardinality({ l \in ActiveIdLinks(store) : l.identity = u }) <= 1
    /\ (LastOp.op = "transfer" /\ LastOp.done)
          => \A l \in store.idLinks :
                (l.account = LastOp.account \/ l.identity = LastOp.target)
                    => (l.is_active <=> l.id = LastOp.link)

\* C9 witness: a completed transfer of an account that was registered to
\* another identity, onto an identity that was registered to another
\* account.
C9_Witness ==
    /\ LastOp.op = "transfer" /\ LastOp.done
    /\ LastOp.account = "a1" /\ LastOp.target = "u2" /\ LastOp.previous = "u1"
    /\ \E l \in store.idLinks :
          l.account = "a2" /\ l.identity = "u2" /\ ~l.is_active
    /\ \E l \in ActiveIdLinks(store) : l.account = "a1" /\ l.identity = "u2"

\* C13: every revocation, by Cycle.revoke or by transfer_registration for
\* the previous identity, has marked the account invalid (when there is
\* one) and calls sync_groups with remove_all and skip_whitelisted set, so
\* that a user holding a whitelisted group loses no group by it.
C13_RevocationPolicy ==
    \A i \in 1..Len(syncLog) :
        syncLog[i].remove_all
            => /\ syncLog[i].account # NoAccount => ~AccountValid(syncLog[i])
               /\ syncLog[i].skip_whitelisted
               /\ HoldsWhitelisted(syncLog[i])
                    => syncLog[i].after = syncLog[i].before

TransferDone == LastOp.op = "transfer" /\ LastOp.done
Position(steps, name) ==
    IF \E i \in 1..Len(steps) : steps[i] = name
    THEN CHOOSE i \in 1..Len(steps) : steps[i] = name
    ELSE 0
LinkFacts ==
    /\ \A l \in store.idLinks :
          (l.account = LastOp.account \/ l.identity = LastOp.target)
              => (l.is_active <=> l.id = LastOp.link)
    /\ \E l \in store.idLinks :
          l.id = LastOp.link /\ l.account = LastOp.account
              /\ l.identity = LastOp.target /\ l.is_active
    /\ LastOp.guild # NoRow
          => \E l \in store.guildLinks : l.id = LastOp.guild.id /\ l.is_active
TargetSync == syncLog[Len(syncLog)]
TargetFacts ==
    /\ TargetSync.account = LastOp.account /\ ~TargetSync.remove_all
    /\ groups[LastOp.target] = TargetSync.after
    /\ NoFailure(TargetSync)
          => TargetSync.after \cap ManagedIds = CodeDesired(TargetSync)

TransferAborted ==
    /\ xfer'.count = xfer.count + 1
    /\ xfer'.last.op = "transfer" /\ ~xfer'.last.done
Validity(st) == [a \in DOMAIN st.accounts |-> st.accounts[a].is_valid]

\* C32: a transfer_registration whose resolution of the target fails sends
\* the error message and returns: every identity link and guild link is as
\* it was, none added, every account's validity is unchanged, no user's
\* groups changed and no sync_groups call was made.
C32_CleanAbort ==
    [][ TransferAborted
          => /\ xfer'.last.messages = <<"error_critical">>
             /\ store'.idLinks = store.idLinks
             /\ store'.guildLinks = store.guildLinks
             /\ Validity(store') = Validity(store)
             /\ groups' = groups
             /\ syncLog' = syncLog ]_vars

\* C32 witness: the transfer of the valid account a1, registered to u1 with
\* a guild selection, to u2 has ended at the failed resolution; a1 is
\* valid, u1 is its identity and both users hold their groups.
C32_Witness ==
    /\ LastOp.op = "transfer" /\ ~LastOp.done
    /\ LastOp.account = "a1" /\ LastOp.target = "u2"
    /\ LastOp.messages = <<"error_critical">>
    /\ xfer.count = 1
    /\ store.accounts["a1"].is_valid
    /\ ValidIdentityOf(store, "a1") = "u1"
    /\ GuildLinkOf(store, "a1") # NoRow
    /\ groups["u1"] = {50, 105} /\ groups["u2"] = {6, 8, 201}

----------------------------------------------------------------------------
(* Properties of Cycle.run, checked under SpecCycle.                       *)

IsOutage(e) == e.ev = "update" /\ e.what = "Unavailable"
Invalidated(before, after) ==
    { a \in DOMAIN after.accounts :
        before.accounts[a].is_valid /\ ~after.accounts[a].is_valid }

\* C7: when account.update raises the transport failure for a user of
\* phase 1 or an account of phase 2, the run ends there: the failed update
\* is the last thing the cycle did (no later user or account, no phase 2
\* after a phase-1 failure, no Guild.cleanup), the run is aborted with that
\* failure, no account has been marked invalid by it and no user's groups
\* have changed.
C7_FailFast ==
    pc = "cycle" =>
        \A i \in 1..Len(cyc.log) :
            IsOutage(cyc.log[i])
                => /\ i = Len(cyc.log)
                   /\ cyc.state = "aborted" /\ cyc.error = "Unavailable"
                   /\ Invalidated(cyc.before.store, store) = {}
                   /\ store = cyc.before.store
                   /\ groups = cyc.before.groups

\* C7 witness: an outage at the second user of phase 1, after the first
\* user was verified and synced.
C7_Witness ==
    /\ pc = "cycle"
    /\ cyc.state = "aborted" /\ cyc.error = "Unavailable"
    /\ Len(cyc.log) >= 2
    /\ cyc.log[Len(cyc.log)] = Event("update", "a2", "Unavailable")
    /\ \E i \in 1..Len(cyc.log) : cyc.log[i] = Event("update", "a1", "Ok")
    /\ \A i \in 1..Len(cyc.log) : cyc.log[i].ev # "verify_accounts"

\* The policy the flags choose, by the precedence of C14.
Policy(c) ==
    IF c.verify_all THEN "all"
    ELSE IF c.verify_linked_worlds THEN "linked"
    ELSE IF c.verify_world # 0 THEN "world"
    ELSE "default"
JustSelected == pc = "cycle" /\ cyc.state = "phase2" /\ cyc.idx = 0
Stale(a) == store.accounts[a].last_check <= cyc.now - VerifyConfig.cycle_hours
BeforeCycle(a) == store.accounts[a].last_check <= cyc.verify_begin
OnLinkedWorld(a) ==
    \E w \in WorldGroupTable : w.world = store.accounts[a].world /\ w.is_linked
OnTargetWorld(a) ==
    cyc.verify_world # 0 /\ store.accounts[a].world = cyc.verify_world
InPolicy(a) ==
    /\ store.accounts[a].is_valid
    /\ Policy(cyc) = "all" => BeforeCycle(a)
    /\ Policy(cyc) = "linked"
         => BeforeCycle(a) /\ (OnLinkedWorld(a) \/ OnTargetWorld(a))
    /\ Policy(cyc) = "world" => Stale(a) /\ OnTargetWorld(a)
    /\ Policy(cyc) = "default" => Stale(a)

\* C14: the accounts verify_accounts selects are exactly those of the one
\* policy the flags choose by the precedence all > linked worlds (with the
\* targeted world, when given) > single world > default: valid accounts
\* only; for all and linked worlds those last checked not after the cycle
\* start; for single world and default those whose last check is at least
\* the freshness window old.
C14_SelectionPolicy ==
    JustSelected =>
        /\ \A a \in Range(CycleAccounts) : a \in Range(cyc.accounts) <=> InPolicy(a)
        /\ \A i, j \in 1..Len(cyc.accounts) :
              cyc.accounts[i] = cyc.accounts[j] => i = j

\* C14 witness: the linked-worlds policy with a targeted world has selected
\* an account of a linked world and the account of the targeted, unlinked
\* world, and has left out an account verified in phase 1 of this run.
C14_Witness ==
    /\ JustSelected
    /\ ~cyc.verify_all /\ cyc.verify_linked_worlds /\ cyc.verify_world = 6
    /\ cyc.accounts = <<"a2", "a3">>
    /\ store.accounts["a1"].is_valid /\ ~BeforeCycle("a1")
    /\ store.accounts["a2"].world = 5 /\ store.accounts["a3"].world = 6

IsInvalidKey(e) == e.ev = "update" /\ e.what = "InvalidKey"
IsRevokeOfAccount(e) == e.ev = "revoke" /\ e.what # "none"
Phase2Begin ==
    IF \E i \in 1..Len(cyc.log) : cyc.log[i].ev = "verify_accounts"
    THEN CHOOSE i \in 1..Len(cyc.log) : cyc.log[i].ev = "verify_accounts"
    ELSE Len(cyc.log) + 1
Phase2Updates ==
    SelectSeq(SubSeq(cyc.log, Phase2Begin, Len(cyc.log)), LAMBDA e : e.ev = "update")

\* A clientdblist of the run was answered with an error other than 1281.
ListFailed ==
    \E i \in 1..Len(cyc.log) :
        cyc.log[i].ev = "clientdblist" /\ cyc.log[i].what = "error"

\* C15: an InvalidKeyException of account.update never ends the run: in
\* phase 1 the account is revoked, in phase 2 it is left marked invalid,
\* and a run that ends normally has gone through every user the directory
\* listed (all users, unless a clientdblist failed) and has updated every
\* selected account.  A revocation of an account happens
\* only directly after that account's update raised InvalidKeyException;
\* the other failures of the verifier end the run with store and groups as
\* they were before the failing update.
C15_LocalFailures ==
    pc = "cycle" =>
        /\ cyc.error # "InvalidKey"
        /\ \A i \in 1..Len(cyc.log) :
              /\ IsInvalidKey(cyc.log[i])
                   => /\ ~store.accounts[cyc.log[i].who].is_valid
                      /\ i < Phase2Begin
                           => /\ i < Len(cyc.log)
                              /\ IsRevokeOfAccount(cyc.log[i + 1])
                              /\ cyc.log[i + 1].what = cyc.log[i].who
              /\ IsRevokeOfAccount(cyc.log[i])
                   => /\ i > 1 /\ i < Phase2Begin
                      /\ IsInvalidKey(cyc.log[i - 1])
                      /\ cyc.log[i - 1].who = cyc.log[i].what
        /\ cyc.state = "aborted"
              => /\ cyc.error \in {"Unavailable", "RateLimitExceeded", "NotFound"}
                 /\ store = cyc.before.store /\ groups = cyc.before.groups
        /\ cyc.state = "done"
              => /\ (RunsPhase1(cyc) /\ ~ListFailed) => cyc.start = Len(DirUsers)
                 /\ Len(Phase2Updates) = Len(cyc.accounts)
                 /\ \A i \in 1..Len(cyc.accounts) :
                       Phase2Updates[i].who = cyc.accounts[i]

\* C15 witness: a run that ended normally although the first user's update
\* in phase 1 and the first account's update in phase 2 raised
\* InvalidKeyException; phase 1 went on to the last user and phase 2 to
\* the next account.
C15_Witness ==
    /\ pc = "cycle" /\ cyc.state = "done"
    /\ \E i \in 1..Len(cyc.log) :
          /\ i < Phase2Begin
          /\ cyc.log[i] = Event("update", "a1", "InvalidKey")
          /\ \E j \in (i + 1)..Len(cyc.log) :
                j < Phase2Begin /\ cyc.log[j] = Event("revoke", "u3", "none")
    /\ Phase2Updates = <<Event("update", "a2", "InvalidKey"),
                         Event("update", "a3", "Ok")>>

Phase1Events == {"clientdblist", "keepalive", "revoke"}
HasEvent(kind) == \E i \in 1..Len(cyc.log) : cyc.log[i].ev = kind

\* C21: fix_user_guilds is the first thing a run does, before any
\* sync_groups call and any account.update; every step of
\* verify_ts3_accounts precedes the start of verify_accounts, which
\* precedes every update of phase 2; Guild.cleanup is the run's last step
\* and is not taken in a run that was aborted.
C21_PhaseOrder ==
    pc = "cycle" =>
        /\ (cyc.log = <<>>) <=> (cyc.state = "new")
        /\ cyc.state = "new" => syncLog = <<>>
        /\ \A i \in 1..Len(cyc.log) :
              /\ (cyc.log[i].ev = "fix_user_guilds") <=> (i = 1)
              /\ cyc.log[i].ev \in Phase1Events
                    => RunsPhase1(cyc) /\ i < Phase2Begin
              /\ cyc.log[i].ev = "cleanup"
                    => /\ i = Len(cyc.log) /\ i > Phase2Begin
                       /\ cyc.state = "done" /\ cyc.error = "none"
              /\ cyc.log[i].ev = "update" /\ ~RunsPhase1(cyc) => i > Phase2Begin
        /\ cyc.state = "aborted" => ~HasEvent("cleanup") /\ cyc.error # "none"
        /\ cyc.state \in {"phase2", "done"} => HasEvent("verify_accounts")
        /\ cyc.state = "done" => HasEvent("cleanup")
        /\ cyc.state = "phase1" => ~HasEvent("verify_accounts")

\* C21 witness: a run that ended normally after phase 1 updated an account
\* and phase 2 updated another.
C21_Witness ==
    /\ pc = "cycle" /\ cyc.state = "done"
    /\ cyc.log[1].ev = "fix_user_guilds"
    /\ \E i \in 2..Len(cyc.log) :
          i < Phase2Begin /\ cyc.log[i] = Event("update", "a1", "Ok")
    /\ \E i \in 2..Len(cyc.log) :
          i > Phase2Begin /\ cyc.log[i] = Event("update", "a3", "Ok")
    /\ cyc.log[Len(cyc.log)].ev = "cleanup"

\* The user the for loop of verify_ts3_accounts is at.
AtUser == pc = "cycle" /\ cyc.state = "phase1" /\ cyc.counter < Len(cyc.users)
CurrentUser == cyc.users[cyc.counter + 1]
NewEvents == SubSeq(cyc'.log, Len(cyc.log) + 1, Len(cyc'.log))
LastSync == syncLog'[Len(syncLog')]

CurrentAccount == GetByIdentity(store, CurrentUser.uid)
KnownUser == AtUser /\ ~IsServerQuery(CurrentUser) /\ CurrentAccount # NoAccount
\* The account of the current user was checked less than cycle_hours
\* before the time of the test.
FreshAtTest ==
    (cyc'.now - store.accounts[CurrentAccount].last_check) < VerifyConfig.cycle_hours

\* C23: the step of phase 1 for a user whose account was checked less than
\* cycle_hours ago makes no account.update, no sync_groups call and no
\* change of store or groups unless verify_all is set; with verify_all
\* set, the step for a user with an account calls account.update whatever
\* the account's last_check.
C23_FreshnessSkip ==
    [][ /\ (KnownUser /\ FreshAtTest /\ ~cyc.verify_all)
            => /\ \A i \in 1..Len(NewEvents) : NewEvents[i].ev = "keepalive"
               /\ store' = store /\ groups' = groups /\ syncLog' = syncLog
               /\ cyc'.state = "phase1" /\ cyc'.counter = cyc.counter + 1
        /\ (KnownUser /\ (cyc.verify_all \/ ~FreshAtTest))
            => \E i \in 1..Len(NewEvents) :
                  NewEvents[i].ev = "update" /\ NewEvents[i].who = CurrentAccount
      ]_vars

\* C23 witness: without verify_all, phase 1 has passed the user of the
\* fresh account a1 and has neither updated the account nor touched the
\* user's groups.
C23_Witness ==
    /\ pc = "cycle" /\ cyc.state = "phase1" /\ ~cyc.verify_all
    /\ cyc.counter >= 1 /\ cyc.users[cyc.counter].uid = "u1"
    /\ store.accounts["a1"].last_check = -1
    /\ \A i \in 1..Len(cyc.log) : cyc.log[i].ev # "update"
    /\ groups["u1"] = {8, 50, 105}
    /\ syncLog = <<>>

ListEnded(e) == e.ev = "clientdblist" /\ e.what \in {"empty", "1281", "error"}
IsListLog(e) == e.ev = "logging.exception"
Count(kind, who) ==
    Len(SelectSeq(cyc.log, LAMBDA e : e.ev = kind /\ e.who = who))

\* C24: the pages of phase 1 follow each other without gap or overlap:
\* each is at most 200 users long and starts where the pages before it
\* ended.  The first empty page or error answer to a follow-up clientdblist
\* is the last clientdblist of the run; error 1281 and an empty page end
\* the sweep without a log entry, any other error with one; none of them
\* ends the run, verify_accounts comes next.  When no clientdblist failed,
\* the sweep has gone through every user of the directory once.
C24_Pagination ==
    (pc = "cycle" /\ RunsPhase1(cyc)) =>
        /\ cyc.state = "phase1"
              => /\ cyc.users # <<>> /\ Len(cyc.users) <= PageSize
                 /\ cyc.start + Len(cyc.users) <= Len(DirUsers)
                 /\ cyc.users = SubSeq(DirUsers, cyc.start + 1,
                                       cyc.start + Len(cyc.users))
        /\ \A i \in 1..Len(cyc.log) :
              /\ ListEnded(cyc.log[i])
                    => /\ \A j \in (i + 1)..Len(cyc.log) : cyc.log[j].ev # "clientdblist"
                       /\ cyc.state # "phase1"
                       /\ i = Len(cyc.log) => cyc.state = "select"
                       /\ (i < Len(cyc.log) /\ cyc.log[i].what # "error")
                             => cyc.log[i + 1].ev = "verify_accounts"
                       /\ cyc.log[i].what = "error"
                             => /\ i < Len(cyc.log) /\ IsListLog(cyc.log[i + 1])
                                /\ i + 1 < Len(cyc.log)
                                      => cyc.log[i + 2].ev = "verify_accounts"
              /\ IsListLog(cyc.log[i])
                    => i > 1 /\ cyc.log[i - 1].ev = "clientdblist"
                             /\ cyc.log[i - 1].what = "error"
        /\ cyc.state = "aborted" => cyc.log[Len(cyc.log)].ev = "update"
        /\ (cyc.state \in {"select", "phase2", "done"} /\ ~ListFailed)
              => /\ cyc.start = Len(DirUsers)
                 /\ Count("revoke", "u3") = 1
        /\ Count("revoke", "u3") <= 1
        /\ \A a \in Range(CycleAccounts) :
              Len(SelectSeq(SubSeq(cyc.log, 1, IF Phase2Begin <= Len(cyc.log)
                                                  THEN Phase2Begin ELSE Len(cyc.log)),
                            LAMBDA e : e.ev = "update" /\ e.who = a)) <= 1

\* C24 witness: a directory that hands out two users per request; the
\* sweep took two pages, was ended by error 1281 on the third request, and
\* the run went on to its normal end.
C24_Witness ==
    /\ pc = "cycle" /\ cyc.state = "done" /\ cyc.limit = 2
    /\ cyc.start = Len(DirUsers)
    /\ SelectSeq(cyc.log, LAMBDA e : e.ev = "clientdblist")
          = << Event("clientdblist", "", ""), Event("clientdblist", "", "page"),
               Event("clientdblist", "", "1281") >>
    /\ Count("revoke", "u3") = 1

InPhase2 == pc = "cycle" /\ cyc.state \in {"select", "phase2"}

LaterCycles ==
    { [cyc EXCEPT !.verify_all = va, !.verify_linked_worlds = vl,
                  !.verify_world = vw,
                  !.verify_begin = cyc.now + d, !.now = cyc.now + d] :
        va \in BOOLEAN, vl \in BOOLEAN, vw \in {0, 5, 6},
        d \in {0, 1, VerifyConfig.cycle_hours, 2 * VerifyConfig.cycle_hours} }

\* C26: an account whose update in verify_accounts ended in
\* InvalidKeyException is invalid from then on and is selected by none of
\* the four policies of a later run; the exception does not end the loop,
\* which goes on with the next selected account.
C26_Phase2Invalidation ==
    pc = "cycle" =>
        \A i \in 1..Len(Phase2Updates) :
            Phase2Updates[i].what = "InvalidKey"
                => /\ Phase2Updates[i].who = cyc.accounts[i]
                   /\ ~store.accounts[cyc.accounts[i]].is_valid
                   /\ \A c \in LaterCycles : ~Selected(store, c, cyc.accounts[i])
                   /\ cyc.state \in {"phase2", "done"}
                        \/ (cyc.state = "aborted" /\ i < Len(Phase2Updates))
                   /\ cyc.state = "phase2" => cyc.idx >= i
                   /\ (cyc.state = "done" /\ i < Len(cyc.accounts))
                        => Phase2Updates[i + 1].who = cyc.accounts[i + 1]

\* C26 witness: a run without phase 1 whose first selected account ended
\* in InvalidKeyException and whose second selected account was updated.
C26_Witness ==
    /\ pc = "cycle" /\ cyc.state = "done" /\ ~RunsPhase1(cyc)
    /\ Len(Phase2Updates) >= 2
    /\ Phase2Updates[1] = Event("update", "a1", "InvalidKey")
    /\ Phase2Updates[2] = Event("update", "a2", "Ok")
    /\ ~store.accounts["a1"].is_valid /\ store.accounts["a2"].is_valid

UpdatesOf(a) == SelectSeq(cyc.log, LAMBDA e : e.ev = "update" /\ e.who = a)
VerifiedInPhase1(a) ==
    \E i \in 1..Len(cyc.log) :
        /\ i < Phase2Begin
        /\ cyc.log[i].ev = "update" /\ cyc.log[i].who = a
        /\ cyc.log[i].what \in {"Ok", "Moved"}

\* C27: verify_begin keeps the value taken at construction, and in a run
\* with verify_all an account whose update succeeded in phase 1 has a
\* last_check after verify_begin and is not among the accounts phase 2
\* selects; account.update is called at most once for each account in the
\* run.
C27_NoDoubleVerification ==
    pc = "cycle" =>
        /\ cyc.verify_begin = 0
        /\ cyc.verify_all
              => \A a \in Range(CycleAccounts) :
                    /\ Len(UpdatesOf(a)) <= 1
                    /\ VerifiedInPhase1(a)
                          => /\ store.accounts[a].last_check > cyc.verify_begin
                             /\ a \notin Range(cyc.accounts)

\* C27 witness: a run with verify_all and phase 1 in which the accounts of
\* both registered users were updated in phase 1 and phase 2 selected only
\* the remaining account.
C27_Witness ==
    /\ pc = "cycle" /\ cyc.state = "done" /\ cyc.verify_all /\ cyc.verify_ts3
    /\ VerifiedInPhase1("a1") /\ VerifiedInPhase1("a2")
    /\ cyc.accounts = <<"a3">>
    /\ Len(UpdatesOf("a3")) = 1


(***************************************************************************)
(* Classification of fetch_api, checked under SpecFetch                    *)
(***************************************************************************)
ClientError(resp) == resp.status \in {400, 403, 404, 429}
Answered(i) == [resp |-> fetch.answers[i], outcome |-> fetch.outcomes[i]]
Classified ==
    IF fetch.state = "idle" THEN {}
    ELSE {Answered(i) : i \in 1..Len(fetch.answers)}

\* C29 (as stated): NotFound exactly for 404 and RateLimited exactly for
\* 429, whatever the body says; InvalidKey exactly for the other 4xx
\* responses carrying the marker, with or without a credential; the body
\* for 200 and Unavailable for everything else.
C29_Original ==
    \A q \in Classified :
        LET marked == q.resp.status \in {400, 403} /\ q.resp.marker
        IN  /\ q.outcome = "InvalidKey" <=> marked
            /\ q.outcome = "NotFound" <=> q.resp.status = 404
            /\ q.outcome = "RateLimited" <=> q.resp.status = 429
            /\ q.outcome = "Ok" <=> q.resp.status = 200
            /\ q.outcome = "Unavailable"
                  <=> (q.resp.status \in {400, 403, 500} /\ ~marked)

\* C29 (amended): fetch_api yields InvalidKey exactly for 4xx responses,
\* 404 and 429 included, that carry the marker when a credential was sent.
\* Every other response is classified by its status alone: the body for
\* 200, NotFound for 404, RateLimited for 429, Unavailable otherwise; so a
\* 4xx with the marker and no credential is never InvalidKey.
C29_Classification ==
    \A q \in Classified :
        LET invalid == ClientError(q.resp) /\ q.resp.marker /\ fetch.has_key
        IN  /\ q.outcome = "InvalidKey" <=> invalid
            /\ q.outcome = "NotFound" <=> (q.resp.status = 404 /\ ~invalid)
            /\ q.outcome = "RateLimited" <=> (q.resp.status = 429 /\ ~invalid)
            /\ q.outcome = "Ok" <=> q.resp.status = 200
            /\ q.outcome = "Unavailable"
                  <=> (q.resp.status \in {400, 403, 500} /\ ~invalid)

\* C29 witness: with a credential, a 429 without the marker was classified
\* RateLimited and a following 404 with the marker InvalidKey.
C29_Witness ==
    /\ fetch.state # "idle" /\ fetch.has_key
    /\ Len(fetch.answers) = 2
    /\ fetch.answers[1] = [status |-> 429, marker |-> FALSE]
    /\ fetch.outcomes[1] = "RateLimited"
    /\ fetch.answers[2] = [status |-> 404, marker |-> TRUE]
    /\ fetch.outcomes[2] = "InvalidKey"


(***************************************************************************)
(* Frame of fix_user_guilds, checked under SpecHeal                        *)
(***************************************************************************)

\* C30: frame of phase 0: every guild-link row, active or inactive, of an
\* account that had at most one active guild link before fix_user_guilds
\* exists afterwards with the same is_active value.
C30_FrameHeal ==
    cyc.state = "healed" =>
        \A l \in cyc.linksBefore :
            l.account \notin DuplicateAccounts(cyc.linksBefore)
                => l \in store.guildLinks


(***************************************************************************)
(* Keepalives of verify_ts3_accounts, checked under SpecSweep              *)
(***************************************************************************)
KeepaliveSent == \E i \in 1..Len(NewEvents) : NewEvents[i].ev = "keepalive"

\* C31: whenever a keepalive follows an earlier keepalive of the sweep, at
\* most 100 directory users were iterated since the earlier one, the user
\* it was sent at included.
C31_KeepaliveSpacing ==
    [][ (AtUser /\ HasEvent("keepalive") /\ KeepaliveSent)
            => cyc.sinceAlive <= KeepaliveEvery ]_vars

=============================================================================
